---- MODULE Spec2Model ----
(***************************************************************************)
(* JAL: a statically typed scripting language.  The pipeline of main() is  *)
(* modelled as one state machine: the parser's inference pass fills the    *)
(* type annotations of the AST, the TypeChecker walks the statements and   *)
(* collects errors, and - only when the error list is empty - the          *)
(* tree-walking Interpreter executes the program against a chain of        *)
(* Environment nodes.                                                      *)
(***************************************************************************)
EXTENDS Integers, Sequences, FiniteSets, TLC

(***************************************************************************)
(* Static types (TypeAnnotation) and runtime values (RuntimeValue).        *)
(***************************************************************************)
TInt(b) == [kind |-> "int", bits |-> b]
TFloat(b) == [kind |-> "float", bits |-> b]
TBool == [kind |-> "bool", bits |-> 0]
TString == [kind |-> "string", bits |-> 0]
TVoid == [kind |-> "void", bits |-> 0]
TList(e) == [kind |-> "list", bits |-> 0, elementType |-> e]
\* an optional field of the AST that is absent (undefined in the source)
NoType == [kind |-> "none", bits |-> 0]

\* number | string | boolean | RuntimeValue[] | null | undefined.  A number is
\* the fraction n/d in lowest terms (d = 1 for an integer); a list value is a
\* reference ref into the heap of arrays.
Frac(n, d) == [t |-> "number", n |-> n, d |-> d, s |-> ""]
Num(n) == Frac(n, 1)
Str(s) == [t |-> "string", n |-> 0, d |-> 1, s |-> s]
Bool(b) == [t |-> "boolean", n |-> IF b THEN 1 ELSE 0, d |-> 1, s |-> ""]
Null == [t |-> "null", n |-> 0, d |-> 1, s |-> ""]
Undefined == [t |-> "undefined", n |-> 0, d |-> 1, s |-> ""]
ListRef(r) == [t |-> "list", n |-> r, d |-> 1, s |-> ""]

(***************************************************************************)
(* AST nodes.                                                              *)
(***************************************************************************)
NoExpr == [kind |-> "none"]
NoBlock == [kind |-> "none", body |-> <<>>]
Literal(v) == [kind |-> "Literal", value |-> v]
Variable(n) == [kind |-> "Variable", name |-> n]
BinaryExpression(op, l, r) ==
    [kind |-> "BinaryExpression", operator |-> op, left |-> l, right |-> r]
FunctionCallExpression(f, args) ==
    [kind |-> "FunctionCallExpression", callee |-> Variable(f), arguments |-> args]
ListExpression(els) == [kind |-> "ListExpression", elements |-> els]
IndexAccess(o, i) == [kind |-> "IndexAccess", object |-> o, index |-> i]

VariableDeclaration(n, m, ty, init) ==
    [kind |-> "VariableDeclaration", name |-> n, mutable |-> m,
     typeAnnotation |-> ty, initializer |-> init]
AssignmentStatement(n, e) == [kind |-> "AssignmentStatement", target |-> n, value |-> e]
ExpressionStatement(e) == [kind |-> "ExpressionStatement", expression |-> e]
BlockStatement(b) == [kind |-> "BlockStatement", body |-> b]
Parameter(n, ty) == [name |-> n, type |-> ty]
FunctionDeclaration(n, ps, rt, b) ==
    [kind |-> "FunctionDeclaration", name |-> n, params |-> ps,
     returnType |-> rt, body |-> BlockStatement(b)]
ListPushStatement(n, e) ==
    [kind |-> "ListPushStatement", target |-> Variable(n), value |-> e]
ReturnStatement(e) == [kind |-> "ReturnStatement", argument |-> e]
IfStatement(c, th, el) ==
    [kind |-> "IfStatement", condition |-> c, consequent |-> BlockStatement(th),
     alternate |-> el]
WhileStatement(c, b) ==
    [kind |-> "WhileStatement", condition |-> c, body |-> BlockStatement(b)]
ForStatement(v, it, b, isIdx) ==
    [kind |-> "ForStatement", variable |-> v, iterable |-> it,
     body |-> BlockStatement(b), isIndex |-> isIdx]

ComparisonOps == {"EQUAL_EQUAL", "NOT_EQUAL", "LESS_THAN", "LESS_EQUAL",
                  "GREATER_THAN", "GREATER_EQUAL"}
ArithmeticOps == {"PLUS", "MINUS", "MULTIPLY", "DIVIDE", "MOD"}

\* a Map<string, X> is a function with a finite set of strings as domain
EmptyMap == <<>>
Has(m, k) == k \in DOMAIN m
MapSet(m, k, v) == (k :> v) @@ m

Max(a, b) == IF a >= b THEN a ELSE b

(***************************************************************************)
(* TypeChecker: the pure helpers.                                          *)
(***************************************************************************)
\* a faulty typesMatch: the kinds alone are compared
sameKind(t1, t2) == t1.kind = t2.kind

RECURSIVE typesMatch(_, _)
typesMatch(t1, t2) ==
    IF t1.kind # t2.kind THEN FALSE
    ELSE IF t1.kind = "int" THEN t1.bits = t2.bits
    ELSE IF t1.kind = "float" THEN t1.bits = t2.bits
    ELSE IF t1.kind = "list"
         THEN IF t1.elementType.kind = "void" \/ t2.elementType.kind = "void"
              THEN TRUE
              ELSE typesMatch(t1.elementType, t2.elementType)
    ELSE TRUE

isNumeric(t) == t.kind = "int" \/ t.kind = "float"

\* a faulty widerType: the left type whatever the right one is
leftOperandType(t1, t2) == t1

widerType(t1, t2) ==
    IF t1.kind = "float" \/ t2.kind = "float"
    THEN TFloat(Max(IF t1.kind = "float" THEN t1.bits ELSE 32,
                    IF t2.kind = "float" THEN t2.bits ELSE 32))
    ELSE IF t1.kind = "int" /\ t2.kind = "int"
         THEN TInt(Max(t1.bits, t2.bits))
         ELSE t1

RECURSIVE typeToString(_)
typeToString(t) ==
    CASE t.kind = "int" -> IF t.bits = 8 THEN "i8" ELSE IF t.bits = 16 THEN "i16"
                           ELSE IF t.bits = 32 THEN "i32" ELSE "i64"
      [] t.kind = "float" -> IF t.bits = 32 THEN "f32" ELSE "f64"
      [] t.kind = "bool" -> "bool"
      [] t.kind = "string" -> "string"
      [] t.kind = "list" -> "list<" \o typeToString(t.elementType) \o ">"
      [] OTHER -> "void"

\* an error message: the fixed text of the template and the text spliced in
Err(text, arg) == [text |-> text, arg |-> arg]

checkLiteral(lit) ==
    CASE lit.value.t = "null" -> TVoid
      [] lit.value.t = "number" ->
            IF lit.value.d = 1 THEN TInt(32) ELSE TFloat(32)
      [] lit.value.t = "string" -> TString
      [] lit.value.t = "boolean" -> TBool
      [] lit.value.t = "list" -> TList(TVoid)
      [] OTHER -> TVoid

(***************************************************************************)
(* TypeChecker: symbols, scopes and the typing of expressions.  A checker  *)
(* state c is the record of the fields of the TypeChecker object.          *)
(***************************************************************************)
Symbol(n, ty, m) == [name |-> n, type |-> ty, mutable |-> m]
\* the result of a lookup that finds nothing (undefined in the source)
NoSymbol == [name |-> "", type |-> NoType, mutable |-> FALSE]
FunctionSymbol(n, ps, rt) == [name |-> n, params |-> ps, returnType |-> rt]

RECURSIVE resolveInScopes(_, _, _)
resolveInScopes(scps, i, name) ==
    IF i = 0 THEN NoSymbol
    ELSE IF Has(scps[i], name) THEN scps[i][name]
    ELSE resolveInScopes(scps, i - 1, name)

resolveSymbol(c, name) ==
    LET s == resolveInScopes(c.scopes, Len(c.scopes), name)
    IN IF s # NoSymbol THEN s
       ELSE IF Has(c.symbolTable, name) THEN c.symbolTable[name]
       ELSE NoSymbol

\* a faulty error(): the message is put in front of the list
errorInFront(c, e) == [c EXCEPT !.errors = << e >> \o @]

error(c, e) == [c EXCEPT !.errors = Append(@, e)]

pushScope(c) == [c EXCEPT !.scopes = Append(@, EmptyMap)]

\* a faulty popScope: the scope stays
keepScope(c) == c

popScope(c) ==
    [c EXCEPT !.scopes = IF Len(@) = 0 THEN @ ELSE SubSeq(@, 1, Len(@) - 1)]

\* a faulty defineSymbol: the outer bindings are not looked at
defineSymbolInCurrentScope(c, name, type, mutable) ==
    IF Len(c.scopes) > 0
    THEN IF Has(c.scopes[Len(c.scopes)], name)
         THEN error(c, Err("Variable already defined in current scope", name))
         ELSE [c EXCEPT !.scopes[Len(c.scopes)] =
                           MapSet(@, name, Symbol(name, type, mutable))]
    ELSE IF Has(c.symbolTable, name)
         THEN error(c, Err("Variable already defined", name))
         ELSE [c EXCEPT !.symbolTable = MapSet(@, name, Symbol(name, type, mutable))]

defineSymbol(c, name, type, mutable) ==
    IF Len(c.scopes) > 0
    THEN LET top == Len(c.scopes)
             existingSymbol == resolveSymbol(c, name)
         IN IF Has(c.scopes[top], name)
            THEN error(c, Err("Variable already defined in current scope", name))
            ELSE IF existingSymbol # NoSymbol /\ ~existingSymbol.mutable
            THEN error(c, Err("Cannot redeclare const variable from outer scope", name))
            ELSE [c EXCEPT !.scopes[top] = MapSet(@, name, Symbol(name, type, mutable))]
    ELSE IF Has(c.symbolTable, name)
         THEN error(c, Err("Variable already defined", name))
         ELSE [c EXCEPT !.symbolTable = MapSet(@, name, Symbol(name, type, mutable))]

\* a faulty registration: the first declaration of a name is kept
registerFunctionOnce(c, func) ==
    IF Has(c.functionTable, func.name) THEN c
    ELSE [c EXCEPT !.functionTable =
             MapSet(@, func.name,
                    FunctionSymbol(func.name, func.params,
                                   IF func.returnType = NoType THEN TVoid
                                   ELSE func.returnType))]

registerFunction(c, func) ==
    [c EXCEPT !.functionTable =
        MapSet(@, func.name,
               FunctionSymbol(func.name, func.params,
                              IF func.returnType = NoType THEN TVoid
                              ELSE func.returnType))]

CheckerBuiltIns == {"print", "len", "type", "stringify", "toNumber"}

\* the result of checking an expression: its type and the errors recorded
\* while checking it, in order
Typed(ty, errs) == [type |-> ty, errors |-> errs]

checkVariable(c, v) ==
    LET symbol == resolveSymbol(c, v.name)
    IN IF symbol = NoSymbol
       THEN Typed(TVoid, <<Err("Undefined variable", v.name)>>)
       ELSE Typed(symbol.type, <<>>)

RECURSIVE checkExpression(_, _)
RECURSIVE checkAll(_, _, _)
\* checkExpression on elements i.. of es, one after the other: the results
checkAll(c, es, i) ==
    IF i > Len(es) THEN <<>>
    ELSE <<checkExpression(c, es[i])>> \o checkAll(c, es, i + 1)

RECURSIVE ConcatErrors(_, _)
ConcatErrors(rs, i) ==
    IF i > Len(rs) THEN <<>> ELSE rs[i].errors \o ConcatErrors(rs, i + 1)

checkBinaryExpression(c, expr) ==
    LET l == checkExpression(c, expr.left)
        r == checkExpression(c, expr.right)
        op == expr.operator
        sub == l.errors \o r.errors
        bad == ~isNumeric(l.type) \/ ~isNumeric(r.type)
    IN IF op \in ComparisonOps
       THEN Typed(TBool,
                  IF bad THEN Append(sub, Err("Cannot compare",
                        typeToString(l.type) \o " and " \o typeToString(r.type)))
                  ELSE sub)
       ELSE IF op \in ArithmeticOps
       THEN LET errs == IF bad
                        THEN Append(sub, Err("Cannot perform " \o op \o " on",
                               typeToString(l.type) \o " and " \o typeToString(r.type)))
                        ELSE sub
            IN IF op = "DIVIDE" /\ l.type.kind = "int" /\ r.type.kind = "int"
               THEN Typed(l.type, errs)
               ELSE Typed(widerType(l.type, r.type), errs)
       ELSE Typed(TVoid, sub)

RECURSIVE ArgumentErrors(_, _, _, _)
\* the loop of checkFunctionCall over the arguments: each argument's own
\* errors, then its mismatch with the parameter
ArgumentErrors(funcSymbol, rs, funcName, i) ==
    IF i > Len(rs) THEN <<>>
    ELSE rs[i].errors
         \o (IF ~typesMatch(funcSymbol.params[i].type, rs[i].type)
             THEN <<Err("Argument type mismatch in call to", funcName)>>
             ELSE <<>>)
         \o ArgumentErrors(funcSymbol, rs, funcName, i + 1)

checkBuiltInFunctionCall(c, funcName, args) ==
    LET rs == checkAll(c, args, 1)
    IN CASE funcName = "print" -> Typed(TVoid, ConcatErrors(rs, 1))
         [] funcName = "len" ->
              IF Len(args) # 1
              THEN Typed(TInt(32), <<Err("len() expects 1 argument", "")>>)
              ELSE Typed(TInt(32),
                         IF rs[1].type.kind # "string" /\ rs[1].type.kind # "list"
                         THEN Append(rs[1].errors,
                                Err("len() requires string or list, got",
                                    typeToString(rs[1].type)))
                         ELSE rs[1].errors)
         [] funcName = "type" ->
              IF Len(args) # 1
              THEN Typed(TString, <<Err("type() expects 1 argument", "")>>)
              ELSE Typed(TString, rs[1].errors)
         [] funcName = "stringify" ->
              IF Len(args) # 1
              THEN Typed(TString, <<Err("stringify() expects 1 argument", "")>>)
              ELSE Typed(TString, rs[1].errors)
         [] OTHER ->
              IF Len(args) # 1
              THEN Typed(TInt(32), <<Err("toNumber() expects 1 argument", "")>>)
              ELSE Typed(TInt(32), rs[1].errors)

checkFunctionCall(c, expr) ==
    LET funcName == expr.callee.name
    IN IF expr.callee.kind # "Variable"
       THEN Typed(TVoid, <<Err("Only named functions can be called", "")>>)
       ELSE IF funcName \in CheckerBuiltIns
       THEN checkBuiltInFunctionCall(c, funcName, expr.arguments)
       ELSE IF ~Has(c.functionTable, funcName)
       THEN Typed(TVoid, <<Err("Undefined function", funcName)>>)
       ELSE LET funcSymbol == c.functionTable[funcName]
            IN IF Len(expr.arguments) # Len(funcSymbol.params)
               THEN Typed(funcSymbol.returnType,
                          <<Err("Function expects a different number of arguments",
                                funcName)>>)
               ELSE Typed(funcSymbol.returnType,
                          ArgumentErrors(funcSymbol, checkAll(c, expr.arguments, 1),
                                         funcName, 1))

RECURSIVE ElementErrors(_, _, _)
\* the loop of checkListExpression over all elements, the first included
ElementErrors(firstType, rs, i) ==
    IF i > Len(rs) THEN <<>>
    ELSE rs[i].errors
         \o (IF ~typesMatch(firstType, rs[i].type)
             THEN <<Err("List elements must all be the same type", "")>>
             ELSE <<>>)
         \o ElementErrors(firstType, rs, i + 1)

checkListExpression(c, expr) ==
    IF Len(expr.elements) = 0 THEN Typed(TList(TVoid), <<>>)
    ELSE LET first == checkExpression(c, expr.elements[1])
         IN Typed(TList(first.type),
                  first.errors
                  \o ElementErrors(first.type, checkAll(c, expr.elements, 1), 1))

checkIndexAccess(c, expr) ==
    LET obj == checkExpression(c, expr.object)
        idx == checkExpression(c, expr.index)
        sub == obj.errors \o idx.errors
    IN IF obj.type.kind # "list"
       THEN Typed(TVoid, Append(sub, Err("Cannot index non-list type",
                                         typeToString(obj.type))))
       ELSE Typed(obj.type.elementType,
                  IF idx.type.kind # "int"
                  THEN Append(sub, Err("Index must be integer, got",
                                       typeToString(idx.type)))
                  ELSE sub)

checkExpression(c, expr) ==
    CASE expr.kind = "Literal" -> Typed(checkLiteral(expr), <<>>)
      [] expr.kind = "Variable" -> checkVariable(c, expr)
      [] expr.kind = "BinaryExpression" -> checkBinaryExpression(c, expr)
      [] expr.kind = "FunctionCallExpression" -> checkFunctionCall(c, expr)
      [] expr.kind = "ListExpression" -> checkListExpression(c, expr)
      [] expr.kind = "IndexAccess" -> checkIndexAccess(c, expr)
      [] OTHER -> Typed(TVoid, <<Err("Unknown expression kind", expr.kind)>>)

(***************************************************************************)
(* Parser: the inference pass that runs at the end of parseProgram and     *)
(* fills typeAnnotation on the declarations written with := .              *)
(***************************************************************************)
InferrerBuiltIns == {"print", "len", "type", "stringify", "toNumber"}

builtInReturns(funcName) ==
    CASE funcName = "print" -> TVoid
      [] funcName = "len" -> TInt(32)
      [] funcName = "type" -> TString
      [] funcName = "stringify" -> TString
      [] OTHER -> TInt(32)

RECURSIVE inferType(_, _, _)
inferType(functionTable, expr, scope) ==
    CASE expr.kind = "Literal" -> checkLiteral(expr)
      [] expr.kind = "Variable" ->
            IF Has(scope, expr.name) THEN scope[expr.name] ELSE TVoid
      [] expr.kind = "BinaryExpression" ->
            LET leftType == inferType(functionTable, expr.left, scope)
                rightType == inferType(functionTable, expr.right, scope)
            IN IF expr.operator \in ComparisonOps THEN TBool
               ELSE IF expr.operator \in ArithmeticOps
               THEN IF expr.operator = "DIVIDE" /\ leftType.kind = "int"
                       /\ rightType.kind = "int"
                    THEN leftType
                    ELSE widerType(leftType, rightType)
               ELSE TVoid
      [] expr.kind = "FunctionCallExpression" ->
            IF expr.callee.kind # "Variable" THEN TVoid
            ELSE IF expr.callee.name \in InferrerBuiltIns
            THEN builtInReturns(expr.callee.name)
            ELSE IF Has(functionTable, expr.callee.name)
            THEN functionTable[expr.callee.name]
            ELSE TVoid
      [] expr.kind = "ListExpression" ->
            IF Len(expr.elements) = 0 THEN TList(TVoid)
            ELSE TList(inferType(functionTable, expr.elements[1], scope))
      [] expr.kind = "IndexAccess" ->
            LET objType == inferType(functionTable, expr.object, scope)
            IN IF objType.kind = "list" THEN objType.elementType ELSE TVoid
      [] OTHER -> TVoid

RECURSIVE ParamScope(_, _)
ParamScope(params, i) ==
    IF i = 0 THEN EmptyMap
    ELSE MapSet(ParamScope(params, i - 1), params[i].name, params[i].type)

\* the statements with their annotations filled, and the scope map as the
\* loop leaves it (the map is shared with the caller, a block gets a copy)
RECURSIVE inferStatementsTypes(_, _, _, _)
inferStatementsTypes(functionTable, statements, i, scope) ==
    IF i > Len(statements) THEN [stmts |-> <<>>, scope |-> scope]
    ELSE
      LET stmt == statements[i]
          Body(b, sc) ==
              [b EXCEPT !.body = inferStatementsTypes(functionTable, b.body, 1, sc).stmts]
          annotated ==
              IF stmt.kind = "VariableDeclaration"
              THEN IF stmt.typeAnnotation = NoType /\ stmt.initializer # NoExpr
                   THEN [stmt EXCEPT !.typeAnnotation =
                            inferType(functionTable, stmt.initializer, scope)]
                   ELSE stmt
              ELSE IF stmt.kind = "BlockStatement" THEN Body(stmt, scope)
              ELSE IF stmt.kind = "IfStatement"
              THEN [stmt EXCEPT !.consequent = Body(stmt.consequent, scope),
                                !.alternate = IF stmt.alternate = NoBlock THEN NoBlock
                                              ELSE Body(stmt.alternate, scope)]
              ELSE IF stmt.kind \in {"WhileStatement", "ForStatement"}
              THEN [stmt EXCEPT !.body = Body(stmt.body, scope)]
              ELSE IF stmt.kind = "FunctionDeclaration"
              THEN [stmt EXCEPT !.body =
                       Body(stmt.body, ParamScope(stmt.params, Len(stmt.params)))]
              ELSE stmt
          scope2 ==
              IF stmt.kind = "VariableDeclaration" /\ annotated.typeAnnotation # NoType
              THEN MapSet(scope, stmt.name, annotated.typeAnnotation)
              ELSE scope
          rest == inferStatementsTypes(functionTable, statements, i + 1, scope2)
      IN [stmts |-> <<annotated>> \o rest.stmts, scope |-> rest.scope]

RECURSIVE FunctionReturnTypes(_, _)
FunctionReturnTypes(body, i) ==
    IF i = 0 THEN EmptyMap
    ELSE IF body[i].kind = "FunctionDeclaration"
         THEN MapSet(FunctionReturnTypes(body, i - 1), body[i].name, body[i].returnType)
         ELSE FunctionReturnTypes(body, i - 1)

\* the body of the Program with the annotations inferred
inferTypesInProgram(body) ==
    inferStatementsTypes(FunctionReturnTypes(body, Len(body)), body, 1, EmptyMap).stmts

(***************************************************************************)
(* TypeChecker: the inference of registerVariableDeclaration, used for a   *)
(* declaration that reaches the checker without an annotation.             *)
(***************************************************************************)
RECURSIVE inferExpressionType(_, _)
inferExpressionType(c, expr) ==
    CASE expr.kind = "Literal" -> Typed(checkLiteral(expr), <<>>)
      [] expr.kind = "Variable" -> checkVariable(c, expr)
      [] expr.kind = "BinaryExpression" ->
            LET l == inferExpressionType(c, expr.left)
                r == inferExpressionType(c, expr.right)
                errs == l.errors \o r.errors
            IN IF expr.operator \in ComparisonOps THEN Typed(TBool, errs)
               ELSE IF expr.operator \in ArithmeticOps
               THEN IF expr.operator = "DIVIDE" /\ l.type.kind = "int"
                       /\ r.type.kind = "int"
                    THEN Typed(l.type, errs)
                    ELSE Typed(widerType(l.type, r.type), errs)
               ELSE Typed(TVoid, errs)
      [] expr.kind = "FunctionCallExpression" ->
            IF expr.callee.kind = "Variable" /\ Has(c.functionTable, expr.callee.name)
            THEN Typed(c.functionTable[expr.callee.name].returnType, <<>>)
            ELSE Typed(TVoid, <<>>)
      [] expr.kind = "ListExpression" ->
            IF Len(expr.elements) = 0 THEN Typed(TList(TVoid), <<>>)
            ELSE LET first == inferExpressionType(c, expr.elements[1])
                 IN Typed(TList(first.type), first.errors)
      [] expr.kind = "IndexAccess" ->
            LET obj == inferExpressionType(c, expr.object)
            IN IF obj.type.kind = "list"
               THEN Typed(obj.type.elementType, obj.errors)
               ELSE Typed(TVoid, obj.errors)
      [] OTHER -> Typed(TVoid, <<>>)

registerVariableDeclaration(c, decl) ==
    IF decl.initializer = NoExpr THEN c
    ELSE IF decl.typeAnnotation # NoType
    THEN defineSymbol(c, decl.name, decl.typeAnnotation, decl.mutable)
    ELSE LET inferred == inferExpressionType(c, decl.initializer)
         IN defineSymbol([c EXCEPT !.errors = @ \o inferred.errors],
                         decl.name, inferred.type, decl.mutable)

\* a faulty pass 1: nothing is registered ahead of pass 2
registerNoDeclarations(c, statements, i) == c

RECURSIVE registerDeclarations(_, _, _)
\* pass 1 of checkStatementsWithInference
registerDeclarations(c, statements, i) ==
    IF i > Len(statements) THEN c
    ELSE registerDeclarations(
            IF statements[i].kind = "VariableDeclaration"
            THEN registerVariableDeclaration(c, statements[i])
            ELSE c,
            statements, i + 1)

RECURSIVE registerFunctions(_, _, _)
\* the first loop of check()
registerFunctions(c, body, i) ==
    IF i > Len(body) THEN c
    ELSE registerFunctions(
            IF body[i].kind = "FunctionDeclaration"
            THEN registerFunction(c, body[i])
            ELSE c,
            body, i + 1)

RECURSIVE defineParameters(_, _, _)
defineParameters(c, params, i) ==
    IF i > Len(params) THEN c
    ELSE defineParameters(defineSymbol(c, params[i].name, params[i].type, FALSE),
                          params, i + 1)

(***************************************************************************)
(* TypeChecker: the checks of the statements that have no body.            *)
(***************************************************************************)
checkVariableDeclaration(c, decl) ==
    IF decl.initializer = NoExpr
    THEN error(c, Err("Variable must have an initializer", decl.name))
    ELSE LET init == checkExpression(c, decl.initializer)
             c1 == [c EXCEPT !.errors = @ \o init.errors]
         IN IF decl.typeAnnotation # NoType
               /\ ~typesMatch(decl.typeAnnotation, init.type)
            THEN error(c1, Err("Type mismatch for variable", decl.name))
            ELSE c1

\* a faulty checkAssignmentStatement: the mutable flag of the symbol is not
\* tested
checkAssignmentTypesOnly(c, stmt) ==
    LET symbol == resolveSymbol(c, stmt.target)
    IN IF symbol = NoSymbol
       THEN error(c, Err("Undefined variable", stmt.target))
       ELSE LET value == checkExpression(c, stmt.value)
                c1 == [c EXCEPT !.errors = @ \o value.errors]
            IN IF ~typesMatch(symbol.type, value.type)
               THEN error(c1, Err("Type mismatch: cannot assign",
                                  typeToString(value.type) \o " to "
                                  \o typeToString(symbol.type)))
               ELSE c1

checkAssignmentStatement(c, stmt) ==
    LET symbol == resolveSymbol(c, stmt.target)
    IN IF symbol = NoSymbol
       THEN error(c, Err("Undefined variable", stmt.target))
       ELSE IF ~symbol.mutable
       THEN error(c, Err("Cannot assign to immutable variable", stmt.target))
       ELSE LET value == checkExpression(c, stmt.value)
                c1 == [c EXCEPT !.errors = @ \o value.errors]
            IN IF ~typesMatch(symbol.type, value.type)
               THEN error(c1, Err("Type mismatch: cannot assign",
                                  typeToString(value.type) \o " to "
                                  \o typeToString(symbol.type)))
               ELSE c1

checkListPushStatement(c, stmt) ==
    LET target == checkExpression(c, stmt.target)
        value == checkExpression(c, stmt.value)
        c1 == [c EXCEPT !.errors = @ \o target.errors \o value.errors]
        symbol == resolveSymbol(c, stmt.target.name)
    IN IF target.type.kind # "list"
       THEN error(c1, Err("Cannot push to non-list type", typeToString(target.type)))
       ELSE IF stmt.target.kind = "Variable" /\ symbol # NoSymbol /\ ~symbol.mutable
       THEN error(c1, Err("Cannot modify immutable list", stmt.target.name))
       ELSE IF target.type.elementType.kind # "void"
               /\ ~typesMatch(target.type.elementType, value.type)
       THEN error(c1, Err("Type mismatch in list push: expected",
                          typeToString(target.type.elementType) \o ", got "
                          \o typeToString(value.type)))
       ELSE c1

\* a faulty check of a return: the function around it is not looked at
checkReturnArgumentOnly(c, stmt) ==
    IF stmt.argument = NoExpr THEN c
    ELSE [c EXCEPT !.errors = @ \o checkExpression(c, stmt.argument).errors]

checkReturnStatement(c, stmt) ==
    IF c.currentFunctionReturnType = NoType
    THEN error(c, Err("Return statement outside of function", ""))
    ELSE IF stmt.argument = NoExpr
    THEN IF c.currentFunctionReturnType.kind # "void"
         THEN error(c, Err("Function expects return value, but got empty return",
                           typeToString(c.currentFunctionReturnType)))
         ELSE c
    ELSE LET arg == checkExpression(c, stmt.argument)
             c1 == [c EXCEPT !.errors = @ \o arg.errors]
         IN IF ~typesMatch(c.currentFunctionReturnType, arg.type)
            THEN error(c1, Err("Return type mismatch: expected",
                               typeToString(c.currentFunctionReturnType) \o ", got "
                               \o typeToString(arg.type)))
            ELSE c1

\* the condition check shared by checkIfStatement and checkWhileStatement
checkCondition(c, condition, what) ==
    LET cond == checkExpression(c, condition)
        c1 == [c EXCEPT !.errors = @ \o cond.errors]
    IN IF cond.type.kind # "bool"
       THEN error(c1, Err(what, typeToString(cond.type)))
       ELSE c1

\* the Environment created by the constructor of Interpreter
globalEnv == 0
Environment(parent) == [variables |-> EmptyMap, parent |-> parent]
\* parent: null
NoEnv == -1
\* no error
NoError == Err("", "")

(***************************************************************************)
(* Interpreter: numbers.  The runtime has one numeric representation, the  *)
(* double; the model computes with exact fractions.                        *)
(***************************************************************************)
Abs(a) == IF a < 0 THEN -a ELSE a

RECURSIVE GCD(_, _)
GCD(a, b) == IF b = 0 THEN a ELSE GCD(b, a % b)

\* the number p/q (q # 0) in lowest terms with a positive denominator
Ratio(p, q) ==
    LET g == GCD(Abs(p), Abs(q))
        sgn == IF q < 0 THEN -1 ELSE 1
    IN Frac(sgn * (p \div g), Abs(q) \div g)

\* the integer part of p/q, rounded toward zero (q > 0)
Trunc(p, q) == IF p >= 0 THEN p \div q ELSE -((-p) \div q)

NumAdd(a, b) == Ratio(a.n * b.d + b.n * a.d, a.d * b.d)
NumSub(a, b) == Ratio(a.n * b.d - b.n * a.d, a.d * b.d)
NumMul(a, b) == Ratio(a.n * b.n, a.d * b.d)
\* a / b, b # 0
NumDiv(a, b) == Ratio(a.n * b.d, a.d * b.n)
\* a % b, b # 0: the remainder has the sign of the dividend
NumMod(a, b) ==
    LET q == Ratio(a.n * b.d, a.d * b.n)
    IN NumSub(a, NumMul(b, Num(Trunc(q.n, q.d))))
NumLess(a, b) == a.n * b.d < b.n * a.d

(***************************************************************************)
(* Interpreter: the Environment chain.  es maps the identity of an         *)
(* Environment node to its fields; a binding is {value, mutable}.          *)
(***************************************************************************)
Binding(v, m) == [value |-> v, mutable |-> m]
\* the outcome of an operation that may throw
Ok(es) == [error |-> NoError, envs |-> es]
Throw(e, es) == [error |-> e, envs |-> es]

\* the identity of the node that pushEnvironment creates
NewEnv(es) == Cardinality(DOMAIN es)

pushEnvironment(es, cur) ==
    [envs |-> (NewEnv(es) :> Environment(cur)) @@ es, currentEnv |-> NewEnv(es)]

\* a faulty popEnvironment: the chain is left for the root at once
popEnvironmentToRoot(es, cur) == globalEnv

\* a faulty popEnvironment: the parent is taken without the test
popEnvironmentUnguarded(es, cur) == es[cur].parent

popEnvironment(es, cur) ==
    IF es[cur].parent # NoEnv THEN es[cur].parent ELSE cur

RECURSIVE FindBinding(_, _, _, _)
\* the walk of getVariable and setVariable from env up the parent links:
\* the first node that has the name, or NoEnv
FindBinding(es, env, name, fuel) ==
    IF env = NoEnv \/ fuel = 0 THEN NoEnv
    ELSE IF Has(es[env].variables, name) THEN env
    ELSE FindBinding(es, es[env].parent, name, fuel - 1)

Lookup(es, cur, name) == FindBinding(es, cur, name, Cardinality(DOMAIN es))

\* a faulty defineVariable: a name held anywhere up the chain counts
defineVariableOncePerChain(es, cur, name, value, mutable) ==
    IF Lookup(es, cur, name) # NoEnv
    THEN Throw(Err("Variable already defined in current scope", name), es)
    ELSE Ok([es EXCEPT ![cur].variables = MapSet(@, name, Binding(value, mutable))])

defineVariable(es, cur, name, value, mutable) ==
    IF Has(es[cur].variables, name)
    THEN Throw(Err("Variable already defined in current scope", name), es)
    ELSE Ok([es EXCEPT ![cur].variables = MapSet(@, name, Binding(value, mutable))])

\* getVariable: the value, or Undefined with the error thrown
getVariable(es, cur, name) ==
    LET env == Lookup(es, cur, name)
    IN IF env # NoEnv
       THEN [error |-> NoError, value |-> es[env].variables[name].value]
       ELSE [error |-> Err("Undefined variable", name), value |-> Undefined]

\* a faulty setVariable: the mutable flag of the binding is not tested
setVariableAnyBinding(es, cur, name, value) ==
    LET env == Lookup(es, cur, name)
    IN IF env = NoEnv THEN Throw(Err("Undefined variable", name), es)
       ELSE Ok([es EXCEPT ![env].variables[name].value = value])

setVariable(es, cur, name, value) ==
    LET env == Lookup(es, cur, name)
    IN IF env = NoEnv THEN Throw(Err("Undefined variable", name), es)
       ELSE IF ~es[env].variables[name].mutable
       THEN Throw(Err("Cannot assign to immutable variable", name), es)
       ELSE Ok([es EXCEPT ![env].variables[name].value = value])

\* h is the heap of arrays
isTruthy(h, value) ==
    CASE value.t \in {"null", "undefined"} -> FALSE
      [] value.t = "boolean" -> value.n = 1
      [] value.t = "number" -> value.n # 0
      [] value.t = "string" -> value.s # ""
      [] OTHER -> Len(h[value.n]) > 0

(***************************************************************************)
(* Library: formatValue.                                                   *)
(***************************************************************************)
Digit(k) == CASE k = 0 -> "0" [] k = 1 -> "1" [] k = 2 -> "2" [] k = 3 -> "3"
              [] k = 4 -> "4" [] k = 5 -> "5" [] k = 6 -> "6" [] k = 7 -> "7"
              [] k = 8 -> "8" [] OTHER -> "9"

RECURSIVE Digits(_)
Digits(k) == IF k < 10 THEN Digit(k) ELSE Digits(k \div 10) \o Digit(k % 10)

RECURSIVE Decimals(_, _, _)
\* the digits of r/q after the point (r < q), at most k of them
Decimals(r, q, k) ==
    IF r = 0 \/ k = 0 THEN ""
    ELSE Digit((r * 10) \div q) \o Decimals((r * 10) % q, q, k - 1)

\* String(x) of a number
NumberToString(v) ==
    LET a == Abs(v.n)
    IN (IF v.n < 0 THEN "-" ELSE "")
       \o Digits(a \div v.d)
       \o (IF a % v.d = 0 THEN "" ELSE "." \o Decimals(a % v.d, v.d, 16))

RECURSIVE formatValue(_, _)
RECURSIVE JoinFormatted(_, _, _, _)
JoinFormatted(h, values, i, sep) ==
    IF i > Len(values) THEN ""
    ELSE (IF i > 1 THEN sep ELSE "") \o formatValue(h, values[i])
         \o JoinFormatted(h, values, i + 1, sep)

formatValue(h, value) ==
    CASE value.t \in {"null", "undefined"} -> "null"
      [] value.t = "list" -> "[" \o JoinFormatted(h, h[value.n], 1, ", ") \o "]"
      [] value.t = "string" -> value.s
      [] value.t = "boolean" -> IF value.n = 1 THEN "true" ELSE "false"
      [] OTHER -> NumberToString(value)

(***************************************************************************)
(* The programs the model runs: main(), one more function f and the global *)
(* statements, each drawn from a few variants, with one integer literal N. *)
(***************************************************************************)
MaxN == 2

Lit(n) == Literal(Num(n))
V(n) == Variable(n)
Bin(op, l, r) == BinaryExpression(op, l, r)
Call(f, args) == FunctionCallExpression(f, args)
Let(n, e) == VariableDeclaration(n, TRUE, NoType, e)
LetT(n, ty, e) == VariableDeclaration(n, TRUE, ty, e)
Const(n, e) == VariableDeclaration(n, FALSE, NoType, e)
PrintLine(e) == ExpressionStatement(Call("print", <<e>>))

If(c, th) == IfStatement(c, th, NoBlock)
IntParam == << Parameter("a", TInt(32)) >>

\* the global statements
GlobalVariants(N) == <<
    \* (none)
    << >>,
    \* let x := 1
    << Let("x", Lit(1)) >>,
    \* let x := 1  let xs := [1, 2]
    << Let("x", Lit(1)), Let("xs", ListExpression(<<Lit(1), Lit(2)>>)) >>,
    \* let x := 1  let g := f(N)
    << Let("x", Lit(1)), Let("g", Call("f", <<Lit(N)>>)) >>,
    \* let x := 1  f(N)  print(x)
    << Let("x", Lit(1)), ExpressionStatement(Call("f", <<Lit(N)>>)),
       PrintLine(V("x")) >>
  >>

\* fn f(a: int): R { ... }
FunctionVariants(N) == <<
    \* fn f(a: int): int { return a + 1 }
    FunctionDeclaration("f", IntParam, TInt(32),
        << ReturnStatement(Bin("PLUS", V("a"), Lit(1))) >>),
    \* fn f(a: int): void { x = a }
    FunctionDeclaration("f", IntParam, TVoid,
        << AssignmentStatement("x", V("a")) >>),
    \* fn f(a: int): int { return x }
    FunctionDeclaration("f", IntParam, TInt(32),
        << ReturnStatement(V("x")) >>),
    \* fn f(a: int): int {
    \*   let i := 0  while (i < 3) { if (i == a) { return i }  i = i + 1 }
    \*   return 9 }
    FunctionDeclaration("f", IntParam, TInt(32),
        << Let("i", Lit(0)),
           WhileStatement(Bin("LESS_THAN", V("i"), Lit(3)),
              << If(Bin("EQUAL_EQUAL", V("i"), V("a")), << ReturnStatement(V("i")) >>),
                 AssignmentStatement("i", Bin("PLUS", V("i"), Lit(1))) >>),
           ReturnStatement(Lit(9)) >>),
    \* fn f(a: int): int {
    \*   for v in [1, 2] { if (v == a) { return v } else { print(v) } }
    \*   return 0 }
    FunctionDeclaration("f", IntParam, TInt(32),
        << ForStatement("v", ListExpression(<<Lit(1), Lit(2)>>),
              << IfStatement(Bin("EQUAL_EQUAL", V("v"), V("a")),
                    << ReturnStatement(V("v")) >>,
                    BlockStatement(<< PrintLine(V("v")) >>)) >>,
              FALSE),
           ReturnStatement(Lit(0)) >>),
    \* fn f(a: int): int { }
    FunctionDeclaration("f", IntParam, TInt(32), << >>),
    \* fn f(a: int): int { if (a < 1) { return 0 }  return f(a - 1) + 1 }
    FunctionDeclaration("f", IntParam, TInt(32),
        << If(Bin("LESS_THAN", V("a"), Lit(1)), << ReturnStatement(Lit(0)) >>),
           ReturnStatement(Bin("PLUS", Call("f", <<Bin("MINUS", V("a"), Lit(1))>>),
                               Lit(1))) >>),
    \* fn f(a: int): int { {{ let z := 7 / a  print(z) }  return a }
    FunctionDeclaration("f", IntParam, TInt(32),
        << BlockStatement(<< Let("z", Bin("DIVIDE", Lit(7), V("a"))),
                             PrintLine(V("z")) >>),
           ReturnStatement(V("a")) >>),
    \* fn f(a: int): int { return f(a + 1) }
    FunctionDeclaration("f", IntParam, TInt(32),
        << ReturnStatement(Call("f", <<Bin("PLUS", V("a"), Lit(1))>>)) >>),
    \* fn f(a: int): void { xs << a }
    FunctionDeclaration("f", IntParam, TVoid,
        << ListPushStatement("xs", V("a")) >>),
    \* fn f(a: int): list { let l : list = [a]  return l }
    FunctionDeclaration("f", IntParam, TList(TVoid),
        << LetT("l", TList(TVoid), ListExpression(<<V("a")>>)),
           ReturnStatement(V("l")) >>),
    \* fn f(l: list): list { return l }
    FunctionDeclaration("f", << Parameter("l", TList(TVoid)) >>, TList(TVoid),
        << ReturnStatement(V("l")) >>),
    \* fn f(a: int): int { let y := x  return y + a }
    FunctionDeclaration("f", IntParam, TInt(32),
        << Let("y", V("x")), ReturnStatement(Bin("PLUS", V("y"), V("a"))) >>),
    \* fn f(a: int): int { if (a < 1) { return 5 }  let t : int = f(a - 1)  print(t) }
    FunctionDeclaration("f", IntParam, TInt(32),
        << If(Bin("LESS_THAN", V("a"), Lit(1)), << ReturnStatement(Lit(5)) >>),
           LetT("t", TInt(32), Call("f", <<Bin("MINUS", V("a"), Lit(1))>>)),
           PrintLine(V("t")) >>),
    \* fn f(a: int): void { if (a < 1) { return }  print(a) }
    \* (the AST of a return without argument)
    FunctionDeclaration("f", IntParam, TVoid,
        << If(Bin("LESS_THAN", V("a"), Lit(1)), << ReturnStatement(NoExpr) >>),
           PrintLine(V("a")) >>)
  >>

\* fn main(): void { ... }
MainVariants(N) == <<
    \* let r := f(N)  print(r)
    << Let("r", Call("f", <<Lit(N)>>)), PrintLine(V("r")) >>,
    \* const x := 5  f(N)
    << Const("x", Lit(5)), ExpressionStatement(Call("f", <<Lit(N)>>)) >>,
    \* const k := 1  k = 2
    << Const("k", Lit(1)), AssignmentStatement("k", Lit(2)) >>,
    \* let x := 5  f(N)  print(x)
    << Let("x", Lit(5)), ExpressionStatement(Call("f", <<Lit(N)>>)),
       PrintLine(V("x")) >>,
    \* let a : int = b  let b : int = N
    << LetT("a", TInt(32), V("b")), LetT("b", TInt(32), Lit(N)) >>,
    \* let ys := [1, 2]  let v := ys[N]  print(v)
    << Let("ys", ListExpression(<<Lit(1), Lit(2)>>)),
       Let("v", IndexAccess(V("ys"), Lit(N))), PrintLine(V("v")) >>,
    \* let x := "s"  let r := f(N)  print(r)
    << Let("x", Literal(Str("s"))), Let("r", Call("f", <<Lit(N)>>)),
       PrintLine(V("r")) >>,
    \* let ys := [N]  for i of ys { if (len(ys) < 3) { ys << i } }  print(ys)
    << Let("ys", ListExpression(<<Lit(N)>>)),
       ForStatement("i", V("ys"),
          << If(Bin("LESS_THAN", Call("len", <<V("ys")>>), Lit(3)),
                << ListPushStatement("ys", V("i")) >>) >>,
          TRUE),
       PrintLine(V("ys")) >>,
    \* fn g(b: int): int { return b }  {{ let z := 2 / (N - 1)  print(z) }
    << FunctionDeclaration("g", << Parameter("b", TInt(32)) >>, TInt(32),
          << ReturnStatement(V("b")) >>),
       BlockStatement(<< Let("z", Bin("DIVIDE", Lit(2), Bin("MINUS", Lit(N), Lit(1)))),
                         PrintLine(V("z")) >>) >>,
    \* let s := "hi"  if (s == "hi") { print(1) } else { print(0) }
    << Let("s", Literal(Str("hi"))),
       IfStatement(Bin("EQUAL_EQUAL", V("s"), Literal(Str("hi"))),
          << PrintLine(Lit(1)) >>,
          BlockStatement(<< PrintLine(Lit(0)) >>)) >>,
    \* let a : list = [1]  a << N  a << [3, 4]  a << a  print(a)
    << LetT("a", TList(TVoid), ListExpression(<<Lit(1)>>)),
       ListPushStatement("a", Lit(N)),
       ListPushStatement("a", ListExpression(<<Lit(3), Lit(4)>>)),
       ListPushStatement("a", V("a")),
       PrintLine(V("a")) >>,
    \* let xs := 5  f(N)  print(xs)
    << Let("xs", Lit(5)), ExpressionStatement(Call("f", <<Lit(N)>>)),
       PrintLine(V("xs")) >>,
    \* let p : list = f(N)  let q := p  q << 7  print(p)  print([N])
    << LetT("p", TList(TVoid), Call("f", <<Lit(N)>>)), Let("q", V("p")),
       ListPushStatement("q", Lit(7)), PrintLine(V("p")),
       PrintLine(ListExpression(<<Lit(N)>>)) >>,
    \* let a : list = [N]  let c : list = f(a)  c << 7  print(a)
    << LetT("a", TList(TVoid), ListExpression(<<Lit(N)>>)),
       LetT("c", TList(TVoid), Call("f", <<V("a")>>)),
       ListPushStatement("c", Lit(7)), PrintLine(V("a")) >>,
    \* let ys := [1, 2]  let v := ys[N / 2]  print(v)  print(ys[0 - N])
    << Let("ys", ListExpression(<<Lit(1), Lit(2)>>)),
       Let("v", IndexAccess(V("ys"), Bin("DIVIDE", Lit(N), Lit(2)))),
       PrintLine(V("v")),
       PrintLine(IndexAccess(V("ys"), Bin("MINUS", Lit(0), Lit(N)))) >>
  >>

\* m = 0: the program declares no function main
Program(g, f, m, N) ==
    GlobalVariants(N)[g]
    \o << FunctionVariants(N)[f] >>
    \o IF m = 0 THEN << >>
       ELSE << FunctionDeclaration("main", << >>, TVoid, MainVariants(N)[m]) >>

\* whole programs that the variants above do not make
ExtraPrograms == <<
    \* fn outer(a: int): int { fn inner(): string { return a }  return "s" }
    \* fn g(): int { return }
    \* return 1
    \* fn main(): void { return 1 }
    << FunctionDeclaration("outer", IntParam, TInt(32),
          << FunctionDeclaration("inner", << >>, TString,
                << ReturnStatement(V("a")) >>),
             ReturnStatement(Literal(Str("s"))) >>),
       FunctionDeclaration("g", << >>, TInt(32), << ReturnStatement(NoExpr) >>),
       ReturnStatement(Lit(1)),
       FunctionDeclaration("main", << >>, TVoid, << ReturnStatement(Lit(1)) >>) >>,
    \* fn f(a: int): int { for v in a { return }  return 0 }
    \* for v in 5 { return 1 }
    \* fn main(): void { }
    << FunctionDeclaration("f", IntParam, TInt(32),
          << ForStatement("v", V("a"), << ReturnStatement(NoExpr) >>, FALSE),
             ReturnStatement(Lit(0)) >>),
       ForStatement("v", Lit(5), << ReturnStatement(Lit(1)) >>, FALSE),
       FunctionDeclaration("main", << >>, TVoid, << >>) >>,
    \* fn f(a: int): int { print(a)  return a }
    \* fn g(a: int, b: int): int { return a - b }
    \* fn main(): void { let a := 7  let r := g(f(1) - f(2), a)  print(r) }
    << FunctionDeclaration("f", IntParam, TInt(32),
          << PrintLine(V("a")), ReturnStatement(V("a")) >>),
       FunctionDeclaration("g", << Parameter("a", TInt(32)), Parameter("b", TInt(32)) >>,
          TInt(32), << ReturnStatement(Bin("MINUS", V("a"), V("b"))) >>),
       FunctionDeclaration("main", << >>, TVoid,
          << Let("a", Lit(7)),
             Let("r", Call("g", << Bin("MINUS", Call("f", <<Lit(1)>>),
                                       Call("f", <<Lit(2)>>)),
                                   V("a") >>)),
             PrintLine(V("r")) >>) >>,
    \* fn f(a: int): int { print(a)  return a }
    \* fn stringify(a: int, b: int): int { return a }
    \* fn main(): void { print(stringify(f(1))) }
    << FunctionDeclaration("f", IntParam, TInt(32),
          << PrintLine(V("a")), ReturnStatement(V("a")) >>),
       FunctionDeclaration("stringify",
          << Parameter("a", TInt(32)), Parameter("b", TInt(32)) >>,
          TInt(32), << ReturnStatement(V("a")) >>),
       FunctionDeclaration("main", << >>, TVoid,
          << PrintLine(Call("stringify", << Call("f", <<Lit(1)>>) >>)) >>) >>,
    \* fn f(a: int): int { return a + 1 }
    \* fn main(): void { let r := f(1, 2)  print(r) }
    \* fn f(a: int, b: int): int { return a * b }
    << FunctionDeclaration("f", IntParam, TInt(32),
          << ReturnStatement(Bin("PLUS", V("a"), Lit(1))) >>),
       FunctionDeclaration("main", << >>, TVoid,
          << Let("r", Call("f", << Lit(1), Lit(2) >>)), PrintLine(V("r")) >>),
       FunctionDeclaration("f", << Parameter("a", TInt(32)), Parameter("b", TInt(32)) >>,
          TInt(32), << ReturnStatement(Bin("MULTIPLY", V("a"), V("b"))) >>) >>,
    \* fn main(): void {
    \*   let v := 0  for i in [1, 2] { let v := 5  print(v) }
    \*   let k := 0  while (k < 2) { let w := 1  k = k + w } }
    << FunctionDeclaration("main", << >>, TVoid,
          << Let("v", Lit(0)),
             ForStatement("i", ListExpression(<<Lit(1), Lit(2)>>),
                << Let("v", Lit(5)), PrintLine(V("v")) >>, FALSE),
             Let("k", Lit(0)),
             WhileStatement(Bin("LESS_THAN", V("k"), Lit(2)),
                << Let("w", Lit(1)),
                   AssignmentStatement("k", Bin("PLUS", V("k"), V("w"))) >>) >>) >>
  >>

(***************************************************************************)
(* The state: main()'s position, the TypeChecker object, the Interpreter   *)
(* object and what the process has written and returned.                   *)
(***************************************************************************)
VARIABLES
    pc,                         \* where main() is
    program,                    \* the body of the Program (the AST)
    symbolTable, functionTable, currentFunctionReturnType, errors, scopes,
    cstack,                     \* the call stack of the checker's walk
    envs, currentEnv,           \* the Environment nodes and this.currentEnv
    functions, returnValue, shouldReturn,
    heap,                       \* the arrays that list values refer to
    ctl, vals,                  \* the call stack of the evaluator's walk
    output,                     \* the lines written to stdout
    thrown,                     \* the runtime error thrown, if any
    exitCode,
    declared,                   \* history: per Environment node, the annotation
                                \* of each variable a declaration defined there
    tokens, pos,                \* the Parser's token array and its position
    calls,                      \* the ASTs that further check() calls are given
    returned,                   \* history: the AST and the result of each
                                \* check() call, in order
    arguments, result           \* a method applied on its own: the arguments
                                \* of the latest call, and what it returned

checkerVars == <<symbolTable, functionTable, currentFunctionReturnType, errors,
                 scopes, cstack>>
interpreterVars == <<envs, currentEnv, functions, returnValue, shouldReturn, heap,
                     ctl, vals, output, thrown>>
parserVars == <<tokens, pos>>
callVars == <<calls, returned>>
applyVars == <<arguments, result>>
vars == <<pc, program, checkerVars, interpreterVars, exitCode, declared, parserVars,
          callVars, applyVars>>


Init ==
    /\ pc = "start"
    /\ \/ \E N \in 0..MaxN :
          \E g \in DOMAIN GlobalVariants(N), f \in DOMAIN FunctionVariants(N),
             m \in {0} \cup DOMAIN MainVariants(N) :
             program = Program(g, f, m, N)
       \/ \E e \in DOMAIN ExtraPrograms : program = ExtraPrograms[e]
    /\ symbolTable = EmptyMap
    /\ functionTable = EmptyMap
    /\ currentFunctionReturnType = NoType
    /\ errors = << >>
    /\ scopes = << >>
    /\ cstack = << >>
    /\ envs = (globalEnv :> Environment(NoEnv))
    /\ currentEnv = globalEnv
    /\ functions = EmptyMap
    /\ returnValue = Undefined
    /\ shouldReturn = FALSE
    /\ heap = << >>
    /\ ctl = << >>
    /\ vals = << >>
    /\ output = << >>
    /\ thrown = NoError
    /\ exitCode = -1
    /\ declared = EmptyMap
    /\ tokens = << >>
    /\ pos = 0
    /\ calls = << >>
    /\ returned = << >>
    /\ arguments = << >>
    /\ result = << >>

(***************************************************************************)
(* main(): parse, check.                                                   *)
(***************************************************************************)
\* new Parser(tokens).parseProgram(): the statements are parsed, then the
\* inference pass fills the annotations
ParseProgram ==
    /\ pc = "start"
    /\ pc' = "parsed"
    /\ program' = inferTypesInProgram(program)
    /\ UNCHANGED <<parserVars, callVars, applyVars, checkerVars, interpreterVars, exitCode, declared>>

TC == [symbolTable |-> symbolTable, functionTable |-> functionTable,
       currentFunctionReturnType |-> currentFunctionReturnType,
       errors |-> errors, scopes |-> scopes]

SetTC(c) ==
    /\ symbolTable' = c.symbolTable
    /\ functionTable' = c.functionTable
    /\ currentFunctionReturnType' = c.currentFunctionReturnType
    /\ errors' = c.errors
    /\ scopes' = c.scopes

\* frames of the checker's call stack: a call of checkStatementsWithInference
\* (i = 0: pass 1 is still to run; i >= 1: pass 2 is at statement i), a call
\* of checkBlockStatement still to make, and the code that follows a body
StatementsFrame(stmts) == [op |-> "statements", statements |-> stmts, i |-> 0]
BlockFrame(b) == [op |-> "block", block |-> b]
PopScopeFrame == [op |-> "popScope"]
EndFunctionFrame(prev) == [op |-> "endFunction", prevReturnType |-> prev]

\* a faulty reset: the error list of the call before is kept
clearTablesOnly(c) ==
    [c EXCEPT !.symbolTable = EmptyMap, !.functionTable = EmptyMap, !.scopes = << >>]

\* the first four statements of check()
clearChecker(c) ==
    [c EXCEPT !.errors = << >>, !.symbolTable = EmptyMap,
              !.functionTable = EmptyMap, !.scopes = << >>]

\* check(): the fields are reset, the functions registered, and the body is
\* handed to checkStatementsWithInference
check ==
    /\ pc = "parsed"
    /\ pc' = "checking"
    /\ SetTC(registerFunctions(clearChecker(TC), program, 1))
    /\ cstack' = << StatementsFrame(program) >>
    /\ UNCHANGED <<parserVars, callVars, applyVars, program, interpreterVars, exitCode, declared>>

Checking == pc = "checking" /\ cstack # << >>
CTop == Head(cstack)
\* pass 2 is at a statement
AtStatement == Checking /\ CTop.op = "statements"
               /\ CTop.i >= 1 /\ CTop.i <= Len(CTop.statements)
CStmt == CTop.statements[CTop.i]
\* what remains to do once the statement at hand is checked
CRest == << [CTop EXCEPT !.i = @ + 1] >> \o Tail(cstack)
CheckerFrame == UNCHANGED <<parserVars, callVars, applyVars, pc, program, interpreterVars, exitCode, declared>>

\* checkStatementsWithInference, pass 1
checkStatementsWithInference ==
    /\ Checking /\ CTop.op = "statements" /\ CTop.i = 0
    /\ SetTC(registerDeclarations(TC, CTop.statements, 1))
    /\ cstack' = << [CTop EXCEPT !.i = 1] >> \o Tail(cstack)
    /\ CheckerFrame

\* checkStatementsWithInference returns after the last statement
checkStatementsReturn ==
    /\ Checking /\ CTop.op = "statements" /\ CTop.i > Len(CTop.statements)
    /\ cstack' = Tail(cstack)
    /\ UNCHANGED <<symbolTable, functionTable, currentFunctionReturnType, errors, scopes>>
    /\ CheckerFrame

CheckLeaf(kind, c) ==
    /\ AtStatement /\ CStmt.kind = kind
    /\ SetTC(c)
    /\ cstack' = CRest
    /\ CheckerFrame

CheckVariableDeclaration ==
    CheckLeaf("VariableDeclaration", checkVariableDeclaration(TC, CStmt))

CheckExpressionStatement ==
    CheckLeaf("ExpressionStatement",
              [TC EXCEPT !.errors = @ \o checkExpression(TC, CStmt.expression).errors])

CheckListPushStatement ==
    CheckLeaf("ListPushStatement", checkListPushStatement(TC, CStmt))

CheckReturnStatement ==
    CheckLeaf("ReturnStatement", checkReturnStatement(TC, CStmt))

CheckAssignmentStatement ==
    CheckLeaf("AssignmentStatement", checkAssignmentStatement(TC, CStmt))

\* checkBlockStatement: of a block statement, or of the body of an if, a
\* while or a for
checkBlockStatement ==
    /\ Checking
    /\ \/ AtStatement /\ CStmt.kind = "BlockStatement"
          /\ cstack' = << StatementsFrame(CStmt.body), PopScopeFrame >> \o CRest
       \/ CTop.op = "block"
          /\ cstack' = << StatementsFrame(CTop.block.body), PopScopeFrame >>
                       \o Tail(cstack)
    /\ SetTC(pushScope(TC))
    /\ CheckerFrame

\* the popScope() that follows a body
PopScope ==
    /\ Checking /\ CTop.op = "popScope"
    /\ SetTC(popScope(TC))
    /\ cstack' = Tail(cstack)
    /\ CheckerFrame

checkIfStatement ==
    /\ AtStatement /\ CStmt.kind = "IfStatement"
    /\ SetTC(checkCondition(TC, CStmt.condition, "If condition must be boolean, got"))
    /\ cstack' = << BlockFrame(CStmt.consequent) >>
                 \o (IF CStmt.alternate # NoBlock
                     THEN << BlockFrame(CStmt.alternate) >> ELSE << >>)
                 \o CRest
    /\ CheckerFrame

checkWhileStatement ==
    /\ AtStatement /\ CStmt.kind = "WhileStatement"
    /\ SetTC(checkCondition(TC, CStmt.condition, "While condition must be boolean, got"))
    /\ cstack' = << BlockFrame(CStmt.body) >> \o CRest
    /\ CheckerFrame

checkForStatement ==
    /\ AtStatement /\ CStmt.kind = "ForStatement"
    /\ LET iterable == checkExpression(TC, CStmt.iterable)
           c1 == [TC EXCEPT !.errors = @ \o iterable.errors]
       IN IF iterable.type.kind # "list"
          THEN /\ SetTC(error(c1, Err("For loop requires list, got",
                                      typeToString(iterable.type))))
               /\ cstack' = CRest
          ELSE /\ SetTC(defineSymbol(pushScope(c1), CStmt.variable,
                                     IF CStmt.isIndex THEN TInt(32)
                                     ELSE iterable.type.elementType,
                                     FALSE))
               /\ cstack' = << BlockFrame(CStmt.body), PopScopeFrame >> \o CRest
    /\ CheckerFrame

checkFunctionDeclaration ==
    /\ AtStatement /\ CStmt.kind = "FunctionDeclaration"
    /\ SetTC(defineParameters(
                pushScope([TC EXCEPT !.currentFunctionReturnType =
                              IF CStmt.returnType = NoType THEN TVoid
                              ELSE CStmt.returnType]),
                CStmt.params, 1))
    /\ cstack' = << StatementsFrame(CStmt.body.body), PopScopeFrame,
                    EndFunctionFrame(currentFunctionReturnType) >> \o CRest
    /\ CheckerFrame

\* checkFunctionDeclaration, after the body: the return type is restored
EndFunction ==
    /\ Checking /\ CTop.op = "endFunction"
    /\ currentFunctionReturnType' = CTop.prevReturnType
    /\ cstack' = Tail(cstack)
    /\ UNCHANGED <<symbolTable, functionTable, errors, scopes>>
    /\ CheckerFrame

\* check() returns { errors }
checkReturn ==
    /\ pc = "checking" /\ cstack = << >>
    /\ pc' = "checked"
    /\ returned' = Append(returned, [program |-> program, errors |-> errors])
    /\ UNCHANGED <<parserVars, calls, applyVars, program, checkerVars, interpreterVars, exitCode,
                   declared>>

(***************************************************************************)
(* main(): the gate between the checker and the evaluator.                 *)
(***************************************************************************)
\* checker.errors.length > 0
\* a faulty gate: one error is let through
hasSeveralErrors(errs) == Len(errs) > 1

\* checker.errors.length > 0
hasErrors(errs) == Len(errs) > 0

\* the text of an error message: what it says and the name or type it quotes
errorMessage(e) == e.text \o " '" \o e.arg \o "'"

\* the lines main() writes with console.log when the checker found errors
ErrorReport(errs) ==
    << "", "=== TYPE CHECKING ERRORS ===" >>
    \o [i \in DOMAIN errs |-> errorMessage(errs[i])]

\* main(): the errors are reported on stdout and the process exits with 1
RejectProgram ==
    /\ pc = "checked"
    /\ hasErrors(errors)
    /\ pc' = "exited"
    /\ exitCode' = 1
    /\ output' = output \o ErrorReport(errors)
    /\ UNCHANGED <<parserVars, callVars, applyVars, program, checkerVars, envs, currentEnv, functions, returnValue,
                   shouldReturn, heap, ctl, vals, thrown, declared>>

(***************************************************************************)
(* Interpreter.  The evaluator's call stack is ctl (the head is the code   *)
(* that runs next) and vals holds the values of the expressions evaluated  *)
(* and not yet used (the head is the latest).                              *)
(***************************************************************************)
ExprFrame(e) == [k |-> "expr", expr |-> e]
StmtFrame(st) == [k |-> "stmt", stmt |-> st]
\* executeStatement returns; env is this.currentEnv as it was at its entry
StmtEndFrame(env) == [k |-> "stmtEnd", env |-> env]
\* the loop of pass 2 of execute() at statement i; ran: the previous
\* iteration executed its statement
GlobalsFrame(i, ran) == [k |-> "globals", i |-> i, ran |-> ran]
MainEndFrame == [k |-> "mainEnd"]
ExecBlockFrame(b) == [k |-> "block", block |-> b]
BodyFrame(body, i) == [k |-> "body", body |-> body, i |-> i]
DefineFrame(decl) == [k |-> "define", decl |-> decl]
AssignFrame(st) == [k |-> "assign", stmt |-> st]
DiscardFrame == [k |-> "discard"]
PushFrame == [k |-> "push"]
ReturnFrame == [k |-> "return"]
IfFrame(st) == [k |-> "if", stmt |-> st]
WhileFrame(st) == [k |-> "while", stmt |-> st]
WhileAfterFrame(st) == [k |-> "whileAfter", stmt |-> st]
ForFrame(st) == [k |-> "for", stmt |-> st]
\* n (history): the length that the list had when the loop started
ForIterFrame(st, ref, i, n) ==
    [k |-> "forIter", stmt |-> st, ref |-> ref, i |-> i, n |-> n]
ForAfterFrame(st, ref, i, n) ==
    [k |-> "forAfter", stmt |-> st, ref |-> ref, i |-> i, n |-> n]
BinaryFrame(op) == [k |-> "binary", operator |-> op]
LibraryFrame(name, n) == [k |-> "library", name |-> name, n |-> n]
CallFrame(name, n) == [k |-> "call", name |-> name, n |-> n]
\* env: the Environment that the call pushed for its parameters
CallReturnFrame(psr, prv, env) ==
    [k |-> "callReturn", prevShouldReturn |-> psr, prevReturnValue |-> prv,
     env |-> env]
ListFrame(n) == [k |-> "list", n |-> n]
IndexFrame == [k |-> "index"]

RECURSIVE ExprFramesFromRight(_, _)
\* a faulty order: the expressions es[i..] from right to left
ExprFramesFromRight(es, i) ==
    IF i > Len(es) THEN << >>
    ELSE ExprFramesFromRight(es, i + 1) \o << ExprFrame(es[i]) >>

RECURSIVE ExprFrames(_, _)
\* the frames that evaluate the expressions es[i..] from left to right
ExprFrames(es, i) ==
    IF i > Len(es) THEN << >> ELSE << ExprFrame(es[i]) >> \o ExprFrames(es, i + 1)

RECURSIVE Reverse(_)
Reverse(sq) == IF sq = << >> THEN << >> ELSE Reverse(Tail(sq)) \o << Head(sq) >>

\* the n latest values, the earliest first
Latest(n) == Reverse(SubSeq(vals, 1, n))
Drop(n) == SubSeq(vals, n + 1, Len(vals))

\* the fields of the Interpreter object, and the process's output
IS == [envs |-> envs, currentEnv |-> currentEnv, returnValue |-> returnValue,
       shouldReturn |-> shouldReturn, heap |-> heap, ctl |-> ctl, vals |-> vals,
       output |-> output, thrown |-> thrown, declared |-> declared]

\* one step of the evaluator that leaves the Interpreter as st; an error thrown
\* unwinds the whole call stack up to the catch of execute()
Step(st) ==
    /\ envs' = st.envs
    /\ currentEnv' = st.currentEnv
    /\ returnValue' = st.returnValue
    /\ shouldReturn' = st.shouldReturn
    /\ heap' = st.heap
    /\ output' = st.output
    /\ thrown' = st.thrown
    /\ declared' = st.declared
    /\ IF st.thrown # NoError
       THEN pc' = "threw" /\ ctl' = << >> /\ vals' = << >>
       ELSE pc' = pc /\ ctl' = st.ctl /\ vals' = st.vals
    /\ UNCHANGED <<parserVars, callVars, applyVars, program, checkerVars, functions, exitCode>>

Executing == pc = "executing" /\ ctl # << >>
Top == Head(ctl)
Rest == Tail(ctl)
AtStmt(kind) == Executing /\ Top.k = "stmt" /\ Top.stmt.kind = kind
AtExpr(kind) == Executing /\ Top.k = "expr" /\ Top.expr.kind = kind
At(k) == Executing /\ Top.k = k
\* the frames of a statement, then the return of executeStatement
Statement(frames) == frames \o << StmtEndFrame(currentEnv) >> \o Rest

registerNoFunctionDeclarations(fs, body, i) == fs

RECURSIVE registerFunctionDeclarations(_, _, _)
\* pass 1 of execute(): registerFunction for every top-level declaration
registerFunctionDeclarations(fs, body, i) ==
    IF i > Len(body) THEN fs
    ELSE registerFunctionDeclarations(
            IF body[i].kind = "FunctionDeclaration"
            THEN MapSet(fs, body[i].name,
                        [params |-> [j \in DOMAIN body[i].params |->
                                        [name |-> body[i].params[j].name]],
                         body |-> body[i].body])
            ELSE fs,
            body, i + 1)

skipsFunctionDeclarationsOnly(stmt) == stmt.kind = "FunctionDeclaration"

\* execute(), pass 2: the statements the loop passes over with `continue`
skipsStatement(stmt) == stmt.kind \in {"FunctionDeclaration", "ExpressionStatement"}

\* main(): new Interpreter().execute(ast), up to the end of pass 1
execute ==
    /\ pc = "checked"
    /\ ~hasErrors(errors)
    /\ pc' = "executing"
    /\ functions' = registerFunctionDeclarations(functions, program, 1)
    /\ ctl' = << GlobalsFrame(1, FALSE) >>
    /\ UNCHANGED <<parserVars, callVars, applyVars, program, checkerVars, envs, currentEnv, returnValue, shouldReturn,
                   heap, vals, output, thrown, exitCode, declared>>

\* execute(), pass 2: one turn of the loop over program.body
executeGlobalStatement ==
    /\ At("globals")
    /\ ~(Top.ran /\ shouldReturn)
    /\ Top.i <= Len(program)
    /\ Step([IS EXCEPT !.ctl =
                IF skipsStatement(program[Top.i])
                THEN << GlobalsFrame(Top.i + 1, FALSE) >> \o Rest
                ELSE << StmtFrame(program[Top.i]), GlobalsFrame(Top.i + 1, TRUE) >>
                     \o Rest])

\* execute(), pass 3: main() is run if it is registered
executeMain ==
    /\ At("globals")
    /\ (Top.ran /\ shouldReturn) \/ Top.i > Len(program)
    /\ IF Has(functions, "main")
       THEN LET p == pushEnvironment(envs, currentEnv)
            IN Step([IS EXCEPT !.shouldReturn = FALSE, !.returnValue = Undefined,
                               !.envs = p.envs, !.currentEnv = p.currentEnv,
                               !.ctl = << ExecBlockFrame(functions["main"].body),
                                          MainEndFrame >> \o Rest])
       ELSE Step([IS EXCEPT !.ctl = Rest])

\* execute(), pass 3: the popEnvironment() after the body of main
executeMainEnd ==
    /\ At("mainEnd")
    /\ Step([IS EXCEPT !.currentEnv = popEnvironment(envs, currentEnv), !.ctl = Rest])

\* execute() returns, main() returns, the process ends with 0
executeReturn ==
    /\ pc = "executing" /\ ctl = << >>
    /\ pc' = "exited"
    /\ exitCode' = 0
    /\ UNCHANGED <<parserVars, callVars, applyVars, program, checkerVars, interpreterVars, declared>>

\* the catch of execute() rethrows, the catch of main() exits with 1
CatchError ==
    /\ pc = "threw"
    /\ pc' = "exited"
    /\ exitCode' = 1
    /\ UNCHANGED <<parserVars, callVars, applyVars, program, checkerVars, interpreterVars, declared>>

(***************************************************************************)
(* Interpreter: statements.                                                *)
(***************************************************************************)
executeVariableDeclaration ==
    /\ AtStmt("VariableDeclaration")
    /\ IF Top.stmt.initializer # NoExpr
       THEN Step([IS EXCEPT !.ctl = Statement(<< ExprFrame(Top.stmt.initializer),
                                                  DefineFrame(Top.stmt) >>)])
       ELSE Step([IS EXCEPT !.ctl = Statement(<< DefineFrame(Top.stmt) >>),
                            !.vals = << Null >> \o vals])

\* history: the declaration decl defined its variable in the node env
Declare(d, env, decl) ==
    MapSet(d, env, MapSet(IF Has(d, env) THEN d[env] ELSE EmptyMap,
                          decl.name, decl.typeAnnotation))

\* executeVariableDeclaration, once the initializer is evaluated
DefineVariable ==
    /\ At("define")
    /\ LET r == defineVariable(envs, currentEnv, Top.decl.name, Head(vals),
                               Top.decl.mutable)
       IN Step([IS EXCEPT !.envs = r.envs, !.thrown = r.error,
                          !.declared = IF r.error = NoError
                                       THEN Declare(declared, currentEnv, Top.decl)
                                       ELSE declared,
                          !.vals = Tail(vals), !.ctl = Rest])

executeAssignmentStatement ==
    /\ AtStmt("AssignmentStatement")
    /\ Step([IS EXCEPT !.ctl = Statement(<< ExprFrame(Top.stmt.value),
                                            AssignFrame(Top.stmt) >>)])

\* executeAssignmentStatement, once the value is evaluated
AssignVariable ==
    /\ At("assign")
    /\ LET r == setVariable(envs, currentEnv, Top.stmt.target, Head(vals))
       IN Step([IS EXCEPT !.envs = r.envs, !.thrown = r.error,
                          !.vals = Tail(vals), !.ctl = Rest])

executeExpressionStatement ==
    /\ AtStmt("ExpressionStatement")
    /\ Step([IS EXCEPT !.ctl = Statement(<< ExprFrame(Top.stmt.expression),
                                            DiscardFrame >>)])

\* the value of an expression statement is dropped
DiscardValue ==
    /\ At("discard")
    /\ Step([IS EXCEPT !.vals = Tail(vals), !.ctl = Rest])

\* case "FunctionDeclaration" of executeStatement: nothing to do
executeFunctionDeclaration ==
    /\ AtStmt("FunctionDeclaration")
    /\ Step([IS EXCEPT !.ctl = Statement(<< >>)])

\* executeBlockStatement, up to the loop: of a block statement, or of the body
\* of a function, an if, a while or a for
executeBlockStatement ==
    /\ Executing
    /\ LET p == pushEnvironment(envs, currentEnv)
       IN \/ /\ Top.k = "stmt" /\ Top.stmt.kind = "BlockStatement"
             /\ Step([IS EXCEPT !.envs = p.envs, !.currentEnv = p.currentEnv,
                                !.ctl = Statement(<< BodyFrame(Top.stmt.body, 1) >>)])
          \/ /\ Top.k = "block"
             /\ Step([IS EXCEPT !.envs = p.envs, !.currentEnv = p.currentEnv,
                                !.ctl = << BodyFrame(Top.block.body, 1) >> \o Rest])

\* the loop of executeBlockStatement breaks after a statement that set shouldReturn
BlockBreaks(frame, flag) == frame.i > 1 /\ flag

\* executeBlockStatement: one turn of the loop
executeBlockBody ==
    /\ At("body")
    /\ ~BlockBreaks(Top, shouldReturn)
    /\ Top.i <= Len(Top.body)
    /\ Step([IS EXCEPT !.ctl = << StmtFrame(Top.body[Top.i]),
                                  BodyFrame(Top.body, Top.i + 1) >> \o Rest])

\* executeBlockStatement: the loop ends and the environment is popped
executeBlockEnd ==
    /\ At("body")
    /\ BlockBreaks(Top, shouldReturn) \/ Top.i > Len(Top.body)
    /\ Step([IS EXCEPT !.currentEnv = popEnvironment(envs, currentEnv), !.ctl = Rest])

\* executeStatement returns
executeStatementReturn ==
    /\ At("stmtEnd")
    /\ Step([IS EXCEPT !.ctl = Rest])

executeListPushStatement ==
    /\ AtStmt("ListPushStatement")
    /\ Step([IS EXCEPT !.ctl = Statement(<< ExprFrame(Top.stmt.target),
                                            ExprFrame(Top.stmt.value),
                                            PushFrame >>)])

\* a faulty push: a list value is pushed as one element
listPushNoSpread(h, target, value) == [h EXCEPT ![target.n] = Append(@, value)]

\* target.push(...value) or target.push(value) on the array h[target]
listPush(h, target, value) ==
    IF value.t = "list"
    THEN [h EXCEPT ![target.n] = @ \o h[value.n]]
    ELSE [h EXCEPT ![target.n] = Append(@, value)]

\* executeListPushStatement, once the target and the value are evaluated
PushToList ==
    /\ At("push")
    /\ LET target == vals[2]
           value == vals[1]
       IN IF target.t # "list"
          THEN Step([IS EXCEPT !.thrown = Err("Cannot push to non-list type", target.t)])
          ELSE Step([IS EXCEPT !.heap = listPush(heap, target, value),
                               !.vals = Drop(2), !.ctl = Rest])

executeReturnStatement ==
    /\ AtStmt("ReturnStatement")
    /\ IF Top.stmt.argument # NoExpr
       THEN Step([IS EXCEPT !.ctl = Statement(<< ExprFrame(Top.stmt.argument),
                                                  ReturnFrame >>)])
       ELSE Step([IS EXCEPT !.returnValue = Undefined, !.shouldReturn = TRUE,
                            !.ctl = Statement(<< >>)])

\* executeReturnStatement, once the argument is evaluated
SetReturnValue ==
    /\ At("return")
    /\ Step([IS EXCEPT !.returnValue = Head(vals), !.shouldReturn = TRUE,
                       !.vals = Tail(vals), !.ctl = Rest])

executeIfStatement ==
    /\ AtStmt("IfStatement")
    /\ Step([IS EXCEPT !.ctl = Statement(<< ExprFrame(Top.stmt.condition),
                                            IfFrame(Top.stmt) >>)])

\* executeIfStatement, once the condition is evaluated
TakeBranch ==
    /\ At("if")
    /\ Step([IS EXCEPT
          !.vals = Tail(vals),
          !.ctl = IF isTruthy(heap, Head(vals))
                  THEN << ExecBlockFrame(Top.stmt.consequent) >> \o Rest
                  ELSE IF Top.stmt.alternate # NoBlock
                  THEN << ExecBlockFrame(Top.stmt.alternate) >> \o Rest
                  ELSE Rest])

executeWhileStatement ==
    /\ AtStmt("WhileStatement")
    /\ Step([IS EXCEPT !.ctl = Statement(<< ExprFrame(Top.stmt.condition),
                                            WhileFrame(Top.stmt) >>)])

\* executeWhileStatement, once the condition is evaluated
WhileTest ==
    /\ At("while")
    /\ Step([IS EXCEPT
          !.vals = Tail(vals),
          !.ctl = IF ~isTruthy(heap, Head(vals)) THEN Rest
                  ELSE << ExecBlockFrame(Top.stmt.body), WhileAfterFrame(Top.stmt) >>
                       \o Rest])

\* a faulty loop: shouldReturn is not tested after the body
whileAfterNoBreak(stmt, flag) == << ExprFrame(stmt.condition), WhileFrame(stmt) >>

\* what executeWhileStatement does after the body: break, or the next turn
whileAfter(stmt, flag) ==
    IF flag THEN << >>
    ELSE << ExprFrame(stmt.condition), WhileFrame(stmt) >>

\* executeWhileStatement, after the body
WhileAfter ==
    /\ At("whileAfter")
    /\ Step([IS EXCEPT !.ctl = whileAfter(Top.stmt, shouldReturn) \o Rest])

executeForStatement ==
    /\ AtStmt("ForStatement")
    /\ Step([IS EXCEPT !.ctl = Statement(<< ExprFrame(Top.stmt.iterable),
                                            ForFrame(Top.stmt) >>)])

\* executeForStatement, once the iterable is evaluated
ForStart ==
    /\ At("for")
    /\ IF Head(vals).t # "list"
       THEN Step([IS EXCEPT !.thrown = Err("For loop requires a list", "")])
       ELSE Step([IS EXCEPT !.vals = Tail(vals),
                            !.ctl = << ForIterFrame(Top.stmt, Head(vals).n, 0,
                                                    Len(heap[Head(vals).n])) >>
                                    \o Rest])

\* executeForStatement: the loop test and the head of one iteration
ForIteration ==
    /\ At("forIter")
    /\ IF Top.i < Len(heap[Top.ref])
       THEN LET p == pushEnvironment(envs, currentEnv)
                r == defineVariable(p.envs, p.currentEnv, Top.stmt.variable,
                                    IF Top.stmt.isIndex THEN Num(Top.i)
                                    ELSE heap[Top.ref][Top.i + 1],
                                    FALSE)
            IN Step([IS EXCEPT !.envs = r.envs, !.currentEnv = p.currentEnv,
                               !.thrown = r.error,
                               !.ctl = << ExecBlockFrame(Top.stmt.body),
                                          ForAfterFrame(Top.stmt, Top.ref, Top.i,
                                                        Top.n) >>
                                       \o Rest])
       ELSE Step([IS EXCEPT !.ctl = Rest])

\* a faulty loop tail: the turn after the next
forAfterSkipping(frame, flag) ==
    IF flag THEN << >>
    ELSE << ForIterFrame(frame.stmt, frame.ref, frame.i + 2, frame.n) >>

\* what executeForStatement does after the body: break, or the next turn
forAfter(frame, flag) ==
    IF flag THEN << >>
    ELSE << ForIterFrame(frame.stmt, frame.ref, frame.i + 1, frame.n) >>

\* executeForStatement, the tail of one iteration
ForAfter ==
    /\ At("forAfter")
    /\ Step([IS EXCEPT !.currentEnv = popEnvironment(envs, currentEnv),
                       !.ctl = forAfter(Top, shouldReturn) \o Rest])

(***************************************************************************)
(* Interpreter: expressions.                                               *)
(***************************************************************************)
evaluateLiteral ==
    /\ AtExpr("Literal")
    /\ Step([IS EXCEPT !.vals = << Top.expr.value >> \o vals, !.ctl = Rest])

evaluateVariable ==
    /\ AtExpr("Variable")
    /\ LET r == getVariable(envs, currentEnv, Top.expr.name)
       IN Step([IS EXCEPT !.thrown = r.error, !.vals = << r.value >> \o vals,
                          !.ctl = Rest])

evaluateBinaryExpression ==
    /\ AtExpr("BinaryExpression")
    /\ Step([IS EXCEPT !.ctl = << ExprFrame(Top.expr.left), ExprFrame(Top.expr.right),
                                  BinaryFrame(Top.expr.operator) >> \o Rest])

\* evaluateBinaryExpression on the two operand values: the value, or the
\* error thrown
binaryOperation(op, left, right) ==
    IF op = "EQUAL_EQUAL" THEN [error |-> NoError, value |-> Bool(left = right)]
    ELSE IF op = "NOT_EQUAL" THEN [error |-> NoError, value |-> Bool(left # right)]
    ELSE IF left.t # "number" \/ right.t # "number"
    THEN [error |-> Err("Binary operation requires numeric operands",
                        left.t \o " and " \o right.t),
          value |-> Undefined]
    ELSE CASE op = "LESS_THAN" -> [error |-> NoError, value |-> Bool(NumLess(left, right))]
           [] op = "LESS_EQUAL" ->
                [error |-> NoError, value |-> Bool(~NumLess(right, left))]
           [] op = "GREATER_THAN" ->
                [error |-> NoError, value |-> Bool(NumLess(right, left))]
           [] op = "GREATER_EQUAL" ->
                [error |-> NoError, value |-> Bool(~NumLess(left, right))]
           [] op = "PLUS" -> [error |-> NoError, value |-> NumAdd(left, right)]
           [] op = "MINUS" -> [error |-> NoError, value |-> NumSub(left, right)]
           [] op = "MULTIPLY" -> [error |-> NoError, value |-> NumMul(left, right)]
           [] op = "DIVIDE" ->
                IF right.n = 0
                THEN [error |-> Err("Division by zero", ""), value |-> Undefined]
                ELSE [error |-> NoError, value |-> NumDiv(left, right)]
           [] op = "MOD" ->
                IF right.n = 0
                THEN [error |-> Err("Modulo by zero", ""), value |-> Undefined]
                ELSE [error |-> NoError, value |-> NumMod(left, right)]
           [] OTHER -> [error |-> Err("Unknown operator", op), value |-> Undefined]

\* evaluateBinaryExpression, once both operands are evaluated
BinaryOperation ==
    /\ At("binary")
    /\ LET r == binaryOperation(Top.operator, vals[2], vals[1])
       IN Step([IS EXCEPT !.thrown = r.error, !.vals = << r.value >> \o Drop(2),
                          !.ctl = Rest])

evaluateListExpression ==
    /\ AtExpr("ListExpression")
    /\ Step([IS EXCEPT !.ctl = ExprFrames(Top.expr.elements, 1)
                               \o << ListFrame(Len(Top.expr.elements)) >> \o Rest])

\* a faulty list literal: an array with the same elements is used again
newListInterned(h, elements) ==
    IF \E r \in DOMAIN h : h[r] = elements
    THEN [heap |-> h, value |-> ListRef(CHOOSE r \in DOMAIN h : h[r] = elements)]
    ELSE [heap |-> Append(h, elements), value |-> ListRef(Len(h) + 1)]

\* expr.elements.map(...): a new array, and the value that refers to it
newList(h, elements) ==
    [heap |-> Append(h, elements), value |-> ListRef(Len(h) + 1)]

\* evaluateListExpression, once the elements are evaluated
MakeList ==
    /\ At("list")
    /\ LET l == newList(heap, Latest(Top.n))
       IN Step([IS EXCEPT !.heap = l.heap,
                          !.vals = << l.value >> \o Drop(Top.n),
                          !.ctl = Rest])

evaluateIndexAccess ==
    /\ AtExpr("IndexAccess")
    /\ Step([IS EXCEPT !.ctl = << ExprFrame(Top.expr.object), ExprFrame(Top.expr.index),
                                  IndexFrame >> \o Rest])

\* obj[index] ?? null
indexAccess(h, obj, index) ==
    IF index.d = 1 /\ index.n >= 0 /\ index.n < Len(h[obj.n])
    THEN IF h[obj.n][index.n + 1].t = "undefined" THEN Null
         ELSE h[obj.n][index.n + 1]
    ELSE Null

\* evaluateIndexAccess, once the object and the index are evaluated
IndexList ==
    /\ At("index")
    /\ LET obj == vals[2]
           index == vals[1]
       IN IF obj.t # "list" \/ index.t # "number"
          THEN Step([IS EXCEPT !.thrown = Err("Cannot index non-list or invalid index", "")])
          ELSE Step([IS EXCEPT !.vals = << indexAccess(heap, obj, index) >> \o Drop(2),
                               !.ctl = Rest])

(***************************************************************************)
(* Interpreter: calls.  Library holds the built-in functions; a built-in   *)
(* evaluates its own arguments through evaluateExpressionPublic.           *)
(***************************************************************************)
LibraryFunctions == {"print", "len", "type", "toString", "toNumber"}
isBuiltIn(name) == name \in LibraryFunctions

\* the largest magnitude of a numeral that parseFloat is modelled on
ParseMax == 9

\* parseFloat(s) for the decimal numerals of the integers up to ParseMax;
\* every other string the programs build is not a numeral (NaN: Undefined)
parseFloat(s) ==
    IF \E k \in -ParseMax..ParseMax : NumberToString(Num(k)) = s
    THEN Num(CHOOSE k \in -ParseMax..ParseMax : NumberToString(Num(k)) = s)
    ELSE Undefined

\* typeof value
typeof(value) ==
    IF value.t \in {"null", "list"} THEN "object" ELSE value.t

\* a built-in of Library on the values of its arguments: the value returned,
\* the line printed (if any), or the error thrown
libraryCall(h, name, values) ==
    LET value == values[1]
        Return(v) == [error |-> NoError, value |-> v, printed |-> << >>]
        Raise(e) == [error |-> e, value |-> Undefined, printed |-> << >>]
    IN CASE name = "print" ->
              [error |-> NoError, value |-> Null,
               printed |-> << JoinFormatted(h, values, 1, " ") >>]
         [] name = "len" ->
              IF value.t = "string" THEN Return(Num(Len(value.s)))
              ELSE IF value.t = "list" THEN Return(Num(Len(h[value.n])))
              ELSE Raise(Err("len() requires string or array", typeof(value)))
         [] name = "type" ->
              IF value.t = "null" THEN Return(Str("null"))
              ELSE IF value.t = "list" THEN Return(Str("array"))
              ELSE Return(Str(typeof(value)))
         [] name = "toString" -> Return(Str(formatValue(h, value)))
         [] OTHER ->
              IF value.t = "number" THEN Return(value)
              ELSE IF value.t = "string"
              THEN IF parseFloat(value.s) = Undefined
                   THEN Raise(Err("Cannot convert to number", value.s))
                   ELSE Return(parseFloat(value.s))
              ELSE IF value.t = "boolean" THEN Return(Num(value.n))
              ELSE Raise(Err("Cannot convert to number", typeof(value)))

\* evaluateFunctionCall, up to the evaluation of the arguments
evaluateFunctionCall ==
    /\ AtExpr("FunctionCallExpression")
    /\ LET funcName == Top.expr.callee.name
           args == Top.expr.arguments
       IN IF Top.expr.callee.kind # "Variable"
          THEN Step([IS EXCEPT !.thrown = Err("Only named functions can be called", "")])
          ELSE IF isBuiltIn(funcName)
          THEN IF funcName # "print" /\ Len(args) # 1
               THEN Step([IS EXCEPT !.thrown = Err("expects 1 argument", funcName)])
               ELSE Step([IS EXCEPT !.ctl = ExprFrames(args, 1)
                                            \o << LibraryFrame(funcName, Len(args)) >>
                                            \o Rest])
          ELSE IF ~Has(functions, funcName)
          THEN Step([IS EXCEPT !.thrown = Err("Undefined function", funcName)])
          ELSE IF Len(args) # Len(functions[funcName].params)
          THEN Step([IS EXCEPT !.thrown = Err("Function expects arguments", funcName)])
          ELSE Step([IS EXCEPT !.ctl = ExprFrames(args, 1)
                                       \o << CallFrame(funcName, Len(args)) >>
                                       \o Rest])

\* Library.call, once the arguments are evaluated
LibraryCall ==
    /\ At("library")
    /\ LET r == libraryCall(heap, Top.name, Latest(Top.n))
       IN Step([IS EXCEPT !.thrown = r.error, !.output = output \o r.printed,
                          !.vals = << r.value >> \o Drop(Top.n), !.ctl = Rest])

\* the environment in which pushEnvironment creates the frame of a call
callParent(cur) == cur

RECURSIVE bindParameters(_, _, _, _, _)
\* defineVariable(params[i].name, argValues[i], false) for i.. in order
bindParameters(es, cur, params, argValues, i) ==
    IF i > Len(params) THEN Ok(es)
    ELSE LET r == defineVariable(es, cur, params[i].name, argValues[i], FALSE)
         IN IF r.error # NoError THEN r
            ELSE bindParameters(r.envs, cur, params, argValues, i + 1)

\* the number of calls of evaluateFunctionCall that have not returned
callDepth(frames) ==
    Cardinality({i \in DOMAIN frames : frames[i].k = "callReturn"})

\* the number of nested calls that the stack of the host holds
HostStackFrames == 5

\* evaluateFunctionCall, once the arguments are evaluated: the frame of the
\* call is pushed, the parameters are bound, the return state is saved and
\* reset, and the body is entered.  The code tests no depth: when the host's
\* stack is exhausted the engine throws its RangeError
CallFunction ==
    /\ At("call")
    /\ LET func == functions[Top.name]
           p == pushEnvironment(envs, callParent(currentEnv))
           r == bindParameters(p.envs, p.currentEnv, func.params, Latest(Top.n), 1)
       IN IF callDepth(ctl) >= HostStackFrames
          THEN Step([IS EXCEPT !.thrown = Err("Maximum call stack size exceeded", "")])
          ELSE
          Step([IS EXCEPT !.envs = r.envs, !.currentEnv = p.currentEnv,
                          !.thrown = r.error,
                          !.shouldReturn = FALSE, !.returnValue = Undefined,
                          !.vals = Drop(Top.n),
                          !.ctl = << ExecBlockFrame(func.body),
                                     CallReturnFrame(shouldReturn, returnValue,
                                                     p.currentEnv) >>
                                  \o Rest])

\* a faulty result: returnValue as it is
returnValueAsItIs(rv) == rv

\* this.returnValue ?? null
callResult(rv) == IF rv.t \in {"undefined", "null"} THEN Null ELSE rv

\* a faulty end of a call: the return state of the callee is left in place
keepReturnState(is, frame) == is

\* the two assignments under "Restore previous state"
restoreReturnState(is, frame) ==
    [is EXCEPT !.shouldReturn = frame.prevShouldReturn,
               !.returnValue = frame.prevReturnValue]

\* evaluateFunctionCall, after the body: the result is taken, the return
\* state is restored and the frame of the call is popped
FunctionReturn ==
    /\ At("callReturn")
    /\ Step([restoreReturnState(IS, Top)
                EXCEPT !.vals = << callResult(returnValue) >> \o vals,
                       !.currentEnv = popEnvironment(envs, currentEnv),
                       !.ctl = Rest])

InterpreterStep ==
    \/ executeGlobalStatement \/ executeMain \/ executeMainEnd
    \/ executeVariableDeclaration \/ DefineVariable
    \/ executeAssignmentStatement \/ AssignVariable
    \/ executeExpressionStatement \/ DiscardValue
    \/ executeFunctionDeclaration
    \/ executeBlockStatement \/ executeBlockBody \/ executeBlockEnd
    \/ executeStatementReturn
    \/ executeListPushStatement \/ PushToList
    \/ executeReturnStatement \/ SetReturnValue
    \/ executeIfStatement \/ TakeBranch
    \/ executeWhileStatement \/ WhileTest \/ WhileAfter
    \/ executeForStatement \/ ForStart \/ ForIteration \/ ForAfter
    \/ evaluateLiteral \/ evaluateVariable
    \/ evaluateBinaryExpression \/ BinaryOperation
    \/ evaluateListExpression \/ MakeList
    \/ evaluateIndexAccess \/ IndexList
    \/ evaluateFunctionCall \/ LibraryCall \/ CallFunction \/ FunctionReturn

CheckerStep ==
    \/ checkStatementsWithInference
    \/ checkStatementsReturn
    \/ CheckVariableDeclaration
    \/ CheckExpressionStatement
    \/ CheckListPushStatement
    \/ CheckReturnStatement
    \/ CheckAssignmentStatement
    \/ checkBlockStatement
    \/ PopScope
    \/ checkIfStatement
    \/ checkWhileStatement
    \/ checkForStatement
    \/ checkFunctionDeclaration
    \/ EndFunction

Next ==
    \/ ParseProgram
    \/ check
    \/ CheckerStep
    \/ checkReturn
    \/ RejectProgram
    \/ execute
    \/ InterpreterStep
    \/ executeReturn
    \/ CatchError

Spec == Init /\ [][Next]_vars

(***************************************************************************)
(* Parser: expressions.  A token is {type, value}; the Parser reads        *)
(* tokens[pos] (pos counts from 0).  The token sequences parsed here are   *)
(* assignments `x = e` where e is made of number literals, parentheses and *)
(* binary operators, so the branches of parsePrimary and parseStatement    *)
(* for the other tokens (calls, list literals, keywords) are left out.     *)
(***************************************************************************)
Token(type, value) == [type |-> type, value |-> value]
EOF == Token("EOF", Null)

\* every operator as one level: a faulty table
FlatPrecedence ==
    [MULTIPLY |-> 2, DIVIDE |-> 2, MOD |-> 2, PLUS |-> 2, MINUS |-> 2]

PRECEDENCE ==
    [MULTIPLY |-> 3, DIVIDE |-> 3, MOD |-> 3, PLUS |-> 2, MINUS |-> 2]

isAtEnd(ts, p) == p >= Len(ts) \/ ts[p + 1].type = "EOF"
peek(ts, p) == IF isAtEnd(ts, p) THEN EOF ELSE ts[p + 1]
peekAhead(ts, p, offset) == IF p + offset >= Len(ts) THEN EOF ELSE ts[p + offset + 1]
\* Parser.check
checkToken(ts, p, type) == ~isAtEnd(ts, p) /\ peek(ts, p).type = type

\* what a parse function returns (expr, with this.pos = pos) or throws
Parsed(e, p) == [error |-> NoError, expr |-> e, pos |-> p]
ParseError(text, arg, p) == [error |-> Err(text, arg), expr |-> NoExpr, pos |-> p]

RECURSIVE parseBinaryExpression(_, _, _)
RECURSIVE parseBinaryOperators(_, _, _, _)
RECURSIVE parsePrimary(_, _)
RECURSIVE parsePostfixExpression(_, _, _)

parseExpression(ts, p) == parseBinaryExpression(ts, p, 0)

\* the while loop of parseBinaryExpression, left being parsed up to p
parseBinaryOperators(ts, p, minPrecedence, left) ==
    LET opToken == peek(ts, p)
    IN IF opToken.type \notin DOMAIN PRECEDENCE
          \/ PRECEDENCE[opToken.type] < minPrecedence
       THEN Parsed(left, p)
       ELSE LET right == parseBinaryExpression(ts, p + 1,
                                               PRECEDENCE[opToken.type] + 1)
            IN IF right.error # NoError THEN right
               ELSE parseBinaryOperators(ts, right.pos, minPrecedence,
                        BinaryExpression(opToken.type, left, right.expr))

parseBinaryExpression(ts, p, minPrecedence) ==
    LET left == parsePrimary(ts, p)
    IN IF left.error # NoError THEN left
       ELSE parseBinaryOperators(ts, left.pos, minPrecedence, left.expr)

parsePrimary(ts, p) ==
    LET token == peek(ts, p)
    IN CASE token.type = "VALUE" ->
                parsePostfixExpression(ts, p + 1, Literal(token.value))
         [] token.type = "VARIABLE" ->
                parsePostfixExpression(ts, p + 1, Variable(token.value.s))
         [] token.type = "FN_OPEN_PARAM" ->
                LET r == parseExpression(ts, p + 1)
                IN IF r.error # NoError THEN r
                   ELSE IF checkToken(ts, r.pos, "FN_END_PARAM")
                   THEN parsePostfixExpression(ts, r.pos + 1, r.expr)
                   ELSE ParseError("Expected ')' after expression", "", r.pos)
         [] OTHER -> ParseError("Unexpected token", token.type, p)

parsePostfixExpression(ts, p, expr) ==
    IF ~checkToken(ts, p, "BRACKET_OPEN") THEN Parsed(expr, p)
    ELSE LET index == parseExpression(ts, p + 1)
         IN IF index.error # NoError THEN index
            ELSE IF checkToken(ts, index.pos, "BRACKET_CLOSE")
            THEN parsePostfixExpression(ts, index.pos + 1,
                                        IndexAccess(expr, index.expr))
            ELSE ParseError("Expected ']' after index", "", index.pos)

\* parseStatement on an assignment, an expression statement or a token that
\* starts no statement; expr holds the statement
parseStatement(ts, p) ==
    IF checkToken(ts, p, "VARIABLE") /\ peekAhead(ts, p, 1).type = "ASSIGN_EQUAL"
    THEN LET e == parseExpression(ts, p + 2)
         IN IF e.error # NoError THEN e
            ELSE Parsed(AssignmentStatement(peek(ts, p).value.s, e.expr), e.pos)
    ELSE IF checkToken(ts, p, "VARIABLE") \/ checkToken(ts, p, "VALUE")
    THEN LET e == parseExpression(ts, p)
         IN IF e.error # NoError THEN e
            ELSE Parsed(ExpressionStatement(e.expr), e.pos)
    ELSE ParseError("Unexpected token", peek(ts, p).type, p)

RECURSIVE evaluateExpression(_, _, _)
\* evaluateExpression on literals, variables and binary expressions
evaluateExpression(es, cur, expr) ==
    CASE expr.kind = "Literal" -> [error |-> NoError, value |-> expr.value]
      [] expr.kind = "Variable" -> getVariable(es, cur, expr.name)
      [] expr.kind = "BinaryExpression" ->
            LET left == evaluateExpression(es, cur, expr.left)
            IN IF left.error # NoError THEN left
               ELSE LET right == evaluateExpression(es, cur, expr.right)
                    IN IF right.error # NoError THEN right
                       ELSE binaryOperation(expr.operator, left.value, right.value)
      [] OTHER -> [error |-> Err("Unknown expression kind", expr.kind),
                   value |-> Undefined]

\* the token sequences: x = p1 op1 p2 ... EOF with at most MaxOperators
\* operators; the i-th primary is the literal i + 1, in parentheses or not
MaxOperators == 3
ParsedOperators == ArithmeticOps \cup {"LESS_THAN", "EQUAL_EQUAL"}

PrimaryTokens(n, paren) ==
    IF paren
    THEN << Token("FN_OPEN_PARAM", Null), Token("VALUE", Num(n)),
            Token("FN_END_PARAM", Null) >>
    ELSE << Token("VALUE", Num(n)) >>

RECURSIVE ExpressionTokens(_, _, _)
ExpressionTokens(ops, parens, i) ==
    PrimaryTokens(i + 1, parens[i])
    \o IF i > Len(ops) THEN << >>
       ELSE << Token(ops[i], Null) >> \o ExpressionTokens(ops, parens, i + 1)

AssignmentTokens(ops, parens) ==
    << Token("VARIABLE", Str("x")), Token("ASSIGN_EQUAL", Null) >>
    \o ExpressionTokens(ops, parens, 1) \o << EOF >>

\* new Parser(tokens)
ParserInit ==
    /\ pc = "start"
    /\ \E k \in 0..MaxOperators :
       \E ops \in [1..k -> ParsedOperators], parens \in [1..(k + 1) -> BOOLEAN] :
          tokens = AssignmentTokens(ops, parens)
    /\ pos = 0
    /\ program = << >>
    /\ symbolTable = EmptyMap
    /\ functionTable = EmptyMap
    /\ currentFunctionReturnType = NoType
    /\ errors = << >>
    /\ scopes = << >>
    /\ cstack = << >>
    /\ envs = (globalEnv :> Environment(NoEnv))
    /\ currentEnv = globalEnv
    /\ functions = EmptyMap
    /\ returnValue = Undefined
    /\ shouldReturn = FALSE
    /\ heap = << >>
    /\ ctl = << >>
    /\ vals = << >>
    /\ output = << >>
    /\ thrown = NoError
    /\ exitCode = -1
    /\ declared = EmptyMap
    /\ calls = << >>
    /\ returned = << >>
    /\ arguments = << >>
    /\ result = << >>

\* parseProgram: one turn of the loop, body.push(this.parseStatement())
ParseStatement ==
    /\ pc = "start"
    /\ ~isAtEnd(tokens, pos)
    /\ LET r == parseStatement(tokens, pos)
       IN IF r.error # NoError
          THEN /\ pc' = "threw"
               /\ thrown' = r.error
               /\ UNCHANGED <<program, pos>>
          ELSE /\ program' = Append(program, r.expr)
               /\ pos' = r.pos
               /\ UNCHANGED <<pc, thrown>>
    /\ UNCHANGED <<tokens, callVars, applyVars, checkerVars, envs, currentEnv, functions,
                   returnValue, shouldReturn, heap, ctl, vals, output, exitCode,
                   declared>>

\* parseProgram: the loop ends at EOF, the types are inferred
ParseProgramReturn ==
    /\ pc = "start"
    /\ isAtEnd(tokens, pos)
    /\ pc' = "parsed"
    /\ program' = inferTypesInProgram(program)
    /\ UNCHANGED <<parserVars, callVars, applyVars, checkerVars, interpreterVars, exitCode, declared>>

\* the evaluator's evaluateExpression on the value of the statement parsed
EvaluateParsed ==
    /\ pc = "parsed"
    /\ LET r == evaluateExpression(envs, currentEnv, program[1].value)
       IN IF r.error # NoError
          THEN pc' = "threw" /\ thrown' = r.error /\ vals' = vals
          ELSE pc' = "evaluated" /\ vals' = << r.value >> /\ thrown' = thrown
    /\ UNCHANGED <<parserVars, callVars, applyVars, program, checkerVars, envs, currentEnv, functions,
                   returnValue, shouldReturn, heap, ctl, output, exitCode, declared>>

ParserNext ==
    \/ ParseStatement
    \/ ParseProgramReturn
    \/ EvaluateParsed
    \/ CatchError

ParserSpec == ParserInit /\ [][ParserNext]_vars

(***************************************************************************)
(* Properties.                                                             *)
(***************************************************************************)
ImmutableAssignment == "Cannot assign to immutable variable"

\* every immutable binding is, after the step, the binding it was
ImmutableBindingsKept ==
    \A e \in DOMAIN envs : \A name \in DOMAIN envs[e].variables :
        ~envs[e].variables[name].mutable
        => /\ e \in DOMAIN envs'
           /\ name \in DOMAIN envs'[e].variables
           /\ envs'[e].variables[name] = envs[e].variables[name]

\* setVariable is about to run on a name whose innermost binding is immutable
AssignsImmutable ==
    /\ At("assign")
    /\ Lookup(envs, currentEnv, Top.stmt.target) # NoEnv
    /\ ~envs[Lookup(envs, currentEnv, Top.stmt.target)]
            .variables[Top.stmt.target].mutable

\* C1: no step of the run changes the value (or the flag) of an immutable
\* binding, and an assignment whose innermost matching binding is immutable
\* throws "Cannot assign to immutable variable" and leaves every Environment
\* as it was.
C1_ImmutableBindingNeverOverwritten ==
    [][/\ ImmutableBindingsKept
       /\ AssignsImmutable
          => /\ thrown' = Err(ImmutableAssignment, Top.stmt.target)
             /\ envs' = envs]_vars

\* an assignment to the constant x of main threw, and x still holds 5
C1_Witness ==
    /\ pc = "threw"
    /\ thrown = Err(ImmutableAssignment, "x")
    /\ \E e \in DOMAIN envs :
          /\ Has(envs[e].variables, "x")
          /\ envs[e].variables["x"] = Binding(Num(5), FALSE)

\* the Interpreter is as its constructor left it
EvaluatorNotStarted ==
    /\ functions = EmptyMap
    /\ envs = (globalEnv :> Environment(NoEnv))
    /\ currentEnv = globalEnv
    /\ ctl = << >> /\ vals = << >> /\ heap = << >>
    /\ thrown = NoError

\* C2: when the checker's error list is not empty the evaluator is never
\* started: the Interpreter stays untouched, stdout carries nothing but
\* main's report of the errors, and the process ends with exit code 1; and
\* the step that starts the evaluator is taken only from the return of
\* check() with an empty error list.
C2_ErrorsStopTheRun ==
    /\ [](errors # << >>
          => /\ EvaluatorNotStarted
             /\ pc \in {"checking", "checked", "exited"}
             /\ output \in {<< >>, ErrorReport(errors)}
             /\ pc = "exited" => exitCode = 1 /\ output = ErrorReport(errors))
    /\ [][pc # "executing" /\ pc' = "executing"
          => pc = "checked" /\ errors = << >>]_vars

\* a program with type errors has ended with exit code 1
C2_Witness ==
    /\ pc = "exited" /\ errors # << >> /\ exitCode = 1
    /\ EvaluatorNotStarted

\* the checker is at an assignment whose target resolves to an immutable symbol
TargetIsImmutable ==
    /\ AtStatement /\ CStmt.kind = "AssignmentStatement"
    /\ resolveSymbol(TC, CStmt.target) # NoSymbol
    /\ ~resolveSymbol(TC, CStmt.target).mutable

HasImmutableError ==
    \E i \in DOMAIN errors : errors[i].text = ImmutableAssignment

C4_NoUndefinedVariableAtRuntime ==
    errors = << >> => thrown.text # "Undefined variable"

\* C5: a program the checker accepts never throws "Cannot assign to
\* immutable variable".
C5_NoImmutableAssignmentAtRuntime ==
    errors = << >> => thrown.text # ImmutableAssignment

\* the kind of a runtime value agrees with the kind of a static type
KindAgrees(value, type) ==
    CASE type.kind \in {"int", "float"} -> value.t = "number"
      [] type.kind = "bool" -> value.t = "boolean"
      [] type.kind = "string" -> value.t = "string"
      [] type.kind = "list" -> value.t = "list"
      [] OTHER -> TRUE

\* C6: in a program the checker accepts, whenever a declared variable is
\* read the kind of the value it holds agrees with the kind of the type the
\* checker gave its symbol (the annotation of its declaration).
C6_ValueAgreesWithStaticType ==
    (errors = << >> /\ AtExpr("Variable"))
    => LET name == Top.expr.name
           e == Lookup(envs, currentEnv, name)
       IN (e # NoEnv /\ Has(declared, e) /\ Has(declared[e], name))
          => KindAgrees(envs[e].variables[name].value, declared[e][name])

\* a call of a user function is running
InCall == \E i \in DOMAIN ctl : ctl[i].k = "callReturn"
\* the Environment of the parameters of the innermost running call
CallEnv ==
    ctl[CHOOSE i \in DOMAIN ctl :
           /\ ctl[i].k = "callReturn"
           /\ \A j \in 1..(i - 1) : ctl[j].k # "callReturn"].env

RECURSIVE EnvsUpTo(_, _, _)
\* the nodes of the chain from env up to the node base
EnvsUpTo(es, env, base) ==
    IF env = NoEnv THEN {}
    ELSE IF env = base THEN {env}
    ELSE {env} \cup EnvsUpTo(es, es[env].parent, base)

\* the name the evaluator is about to read or to assign
NameInUse == IF Top.k = "expr" THEN Top.expr.name ELSE Top.stmt.target

\* C7: while the body of a user function runs, a name it reads or assigns
\* resolves to a binding of the call's own Environments (parameters and
\* locals) or of the global Environment, never to a local of the caller.
C7_CalleeSeesOwnAndGlobalOnly ==
    ((AtExpr("Variable") \/ At("assign")) /\ InCall)
    => Lookup(envs, currentEnv, NameInUse)
          \in EnvsUpTo(envs, currentEnv, CallEnv) \cup {globalEnv, NoEnv}

\* C8: when executeStatement returns - no error was thrown - this.currentEnv
\* is the Environment node it was when the statement began, and when
\* execute() has returned it is the global Environment.
C8_ScopeBalance ==
    /\ At("stmtEnd") => currentEnv = Top.env
    /\ (pc = "executing" /\ ctl = << >>) => currentEnv = globalEnv
    /\ (pc = "exited" /\ exitCode = 0) => currentEnv = globalEnv

\* a statement that ran a return inside nested Environments has completed
\* in the Environment it began in
C8_Witness ==
    /\ At("stmtEnd") /\ shouldReturn
    /\ currentEnv = Top.env
    /\ NewEnv(envs) > currentEnv + 2

\* C9: when a runtime error has unwound to the catch of execute(),
\* this.currentEnv is the global Environment again.
C9_ErrorRestoresGlobalEnv ==
    pc = "threw" => currentEnv = globalEnv

\* the code that runs while a return unwinds to its call
Unwinding == {"stmtEnd", "body", "whileAfter", "forAfter", "callReturn",
              "mainEnd", "globals"}

\* C10: once a return has executed (shouldReturn is set) the invocation runs
\* no statement, no expression and no loop test: every block and loop on the
\* way breaks, the flag and the value stay until the call takes them, and the
\* call's result is the value of the return's argument (if it has one).
C10_ReturnEndsTheInvocation ==
    /\ []((Executing /\ shouldReturn)
          => /\ Top.k \in Unwinding
             /\ Top.k = "body" => Top.i > 1)
    /\ [][/\ (shouldReturn /\ ~shouldReturn') => Top.k \in {"callReturn", "globals"}
          /\ (shouldReturn /\ shouldReturn') => returnValue' = returnValue
          /\ At("return") => shouldReturn' /\ returnValue' = Head(vals)
          /\ (At("callReturn") /\ shouldReturn /\ returnValue # Undefined)
             => Head(vals') = returnValue]_vars

\* a return nested in an if in a while has broken the loop
C10_Witness ==
    /\ At("whileAfter") /\ shouldReturn
    /\ InCall
    /\ returnValue.t = "number"

\* every top-level FunctionDeclaration of the program is registered
AllFunctionsRegistered ==
    \A i \in DOMAIN program :
        program[i].kind = "FunctionDeclaration" => Has(functions, program[i].name)

\* the body of main is running (its popEnvironment is still to come)
InMain == \E i \in DOMAIN ctl : ctl[i].k = "mainEnd"
\* the loop of pass 2 has not been left
InGlobalsLoop == \E i \in DOMAIN ctl : ctl[i].k = "globals"

\* C11: execute() runs its three phases in order.  While anything is executed
\* every top-level FunctionDeclaration is registered (so a global initializer
\* can call a function declared later); the body of main starts only from the
\* end of the loop over the global statements, with all of them passed, and
\* the loop is never re-entered; when no function main is registered the run
\* ends at the end of that loop and nothing else is executed.
C11_ThreePhasesInOrder ==
    /\ [](pc = "executing" => AllFunctionsRegistered)
    /\ [](InMain => Has(functions, "main") /\ ~InGlobalsLoop)
    /\ [][/\ (~InMain /\ InMain')
             => /\ At("globals") /\ Top.i > Len(program)
                /\ Head(ctl') = ExecBlockFrame(functions["main"].body)
          /\ (At("globals") /\ Top.i > Len(program) /\ ~Has(functions, "main"))
             => /\ ctl' = << >>
                /\ <<envs, currentEnv, heap, output>>' = <<envs, currentEnv, heap, output>>
         ]_vars

\* main is running after the global g was initialised by a call of f, which
\* is declared after g in the text
C11_Witness ==
    /\ InMain
    /\ \E i, j \in DOMAIN program :
          /\ i < j
          /\ program[i].kind = "VariableDeclaration" /\ program[i].name = "g"
          /\ program[i].initializer.kind = "FunctionCallExpression"
          /\ program[j].kind = "FunctionDeclaration" /\ program[j].name = "f"
    /\ Has(envs[globalEnv].variables, "g")
    /\ envs[globalEnv].variables["g"].value.t = "number"

\* a run without main has ended after the global statements
C11_WitnessNoMain ==
    /\ pc = "exited" /\ exitCode = 0
    /\ ~Has(functions, "main")
    /\ Has(envs[globalEnv].variables, "g")

\* the statement that executeStatement is about to run is a top-level one
AtTopLevelStatement ==
    /\ Executing /\ Top.k = "stmt"
    /\ Len(ctl) = 2 /\ ctl[2].k = "globals"

\* the loop of pass 2 is at a top-level ExpressionStatement
AtTopLevelExpressionStatement ==
    /\ At("globals")
    /\ Top.i <= Len(program)
    /\ ~(Top.ran /\ shouldReturn)
    /\ program[Top.i].kind = "ExpressionStatement"

\* C12: a top-level ExpressionStatement is never evaluated.  The loop of the
\* global statements passes over it in one step that changes no Environment,
\* no list, no output and throws nothing, so that the run goes on as if the
\* statement were not in the program; no top-level statement handed to
\* executeStatement is an ExpressionStatement; an ExpressionStatement that
\* executeStatement meets (in a block or a function body) has its expression
\* evaluated next.
C12_TopLevelExpressionStatementSkipped ==
    /\ [](AtTopLevelStatement => Top.stmt.kind # "ExpressionStatement")
    /\ [][/\ AtTopLevelExpressionStatement
             => /\ <<envs, currentEnv, heap, output, vals, thrown, returnValue,
                     shouldReturn>>'
                   = <<envs, currentEnv, heap, output, vals, thrown, returnValue,
                       shouldReturn>>
                /\ ctl' = << GlobalsFrame(Top.i + 1, FALSE) >> \o Rest
          /\ AtStmt("ExpressionStatement")
             => /\ Len(ctl) > 2
                /\ Head(ctl') = ExprFrame(Top.stmt.expression)
         ]_vars

\* the run of `let x := 1  f(2)  print(x)` with f(a) { x = a } and no main has
\* ended: nothing was printed and x is 1
C12_Witness ==
    /\ pc = "exited" /\ exitCode = 0
    /\ \E i \in DOMAIN program :
          /\ program[i].kind = "ExpressionStatement"
          /\ program[i].expression = Call("f", <<Lit(2)>>)
    /\ Has(functions, "f")
    /\ functions["f"].body = BlockStatement(<< AssignmentStatement("x", V("a")) >>)
    /\ ~Has(functions, "main")
    /\ output = << >>
    /\ envs[globalEnv].variables["x"].value = Num(1)

\* a number without a fractional part
IsInteger(v) == v.t = "number" /\ v.d = 1

\* `/` is about to be applied to two integers, the divisor not zero
DividesIntegers ==
    /\ At("binary") /\ Top.operator = "DIVIDE"
    /\ IsInteger(vals[2]) /\ IsInteger(vals[1])
    /\ vals[1].n # 0

\* C13: `/` on two integer operands with a non-zero divisor yields the
\* integer quotient, never a fractional number (7 / 2 is 3).
C13_IntegerDivisionYieldsInteger ==
    [][DividesIntegers
       => /\ IsInteger(Head(vals'))
          /\ (vals[2].n >= 0 /\ vals[1].n > 0)
             => Head(vals') = Num(vals[2].n \div vals[1].n)]_vars

\* main has an if whose condition compares the string variable s with the
\* string "hi" by ==
ComparesStrings ==
    \E i \in DOMAIN program :
        /\ program[i].kind = "FunctionDeclaration" /\ program[i].name = "main"
        /\ \E j \in DOMAIN program[i].body.body :
             LET st == program[i].body.body[j]
             IN /\ st.kind = "IfStatement"
                /\ st.condition.operator = "EQUAL_EQUAL"
                /\ st.condition.left = Variable("s")
                /\ st.condition.right.kind = "Literal"
                /\ st.condition.right.value = Str("hi")

\* C14: a program whose if-condition compares two strings with == is accepted
\* by the checker (no error about the comparison) and, when it has run with
\* no error, has taken the consequent of the equal strings: its last line of
\* output is 1.
C14_StringEqualityAcceptedAndExecuted ==
    ComparesStrings
    => /\ \A i \in DOMAIN errors : errors[i].text # "Cannot compare"
       /\ (pc = "exited" /\ errors = << >> /\ thrown = NoError)
          => (output # << >> /\ output[Len(output)] = "1")

\* the tokens x = ts EOF
IsAssignmentOf(ts) ==
    tokens = << Token("VARIABLE", Str("x")), Token("ASSIGN_EQUAL", Null) >>
             \o ts \o << EOF >>

\* the types of the tokens
TokenTypes(ts) == [i \in DOMAIN ts |-> ts[i].type]

\* the tokens are  x = a + b < c * d EOF  for four literals a, b, c, d
IsSumLessProduct ==
    TokenTypes(tokens) = << "VARIABLE", "ASSIGN_EQUAL", "VALUE", "PLUS", "VALUE",
                            "LESS_THAN", "VALUE", "MULTIPLY", "VALUE", "EOF" >>

\* C15: comparison operators bind less tightly than every arithmetic
\* operator: the tokens  a + b < c * d  are parsed, without an error, into one
\* BinaryExpression with operator <, left operand a + b and right operand
\* c * d.
C15_ComparisonBelowArithmetic ==
    IsSumLessProduct
    => /\ pc # "threw"
       /\ pc = "parsed"
          => program = << AssignmentStatement("x",
                Bin("LESS_THAN",
                    Bin("PLUS", Literal(tokens[3].value), Literal(tokens[5].value)),
                    Bin("MULTIPLY", Literal(tokens[7].value),
                        Literal(tokens[9].value)))) >>

\* the primaries and the operators of the tokens of an expression, in order
Operands(ts) == SelectSeq(ts, LAMBDA t : t.type = "VALUE")
Operators(ts) == SelectSeq(ts, LAMBDA t : t.type \in ParsedOperators)

MultiplicativeOps == {"MULTIPLY", "DIVIDE", "MOD"}

\* sum op term, or term alone when there is no sum yet
Combine(sum, op, term) == IF op = "" THEN term ELSE Bin(op, sum, term)

RECURSIVE Grouped(_, _, _, _, _, _)
\* the tree of the operands and operators from operator i on, where sum (with
\* the operator op that follows it) and the product term are built so far:
\* products are folded from the left, then sums are folded from the left
Grouped(operands, operators, i, sum, op, term) ==
    IF i > Len(operators) THEN Combine(sum, op, term)
    ELSE IF operators[i].type \in MultiplicativeOps
    THEN Grouped(operands, operators, i + 1, sum, op,
                 Bin(operators[i].type, term, Literal(operands[i + 1].value)))
    ELSE Grouped(operands, operators, i + 1, Combine(sum, op, term),
                 operators[i].type, Literal(operands[i + 1].value))

\* the tree in which * / % bind tighter than + - and equal levels group
\* from the left
ArithmeticTree(ts) ==
    Grouped(Operands(ts), Operators(ts), 1, NoExpr, "", Literal(Operands(ts)[1].value))

\* the tokens of the expression: those after x =, without EOF
ExpressionOf(ts) == SubSeq(ts, 3, Len(ts) - 1)
OnlyArithmetic(ts) == \A i \in DOMAIN ts : ts[i].type \notin ComparisonOps

\* C16: a sequence of primaries separated by + - * / % is parsed, without an
\* error, into the tree in which * / % bind tighter than + - and operators of
\* equal precedence group left to right (a - b - c is (a - b) - c and
\* a + b * c is a + (b * c)), and 2 + 3 * 4 evaluates to 14.
C16_ArithmeticPrecedenceAndAssociativity ==
    OnlyArithmetic(tokens)
    => /\ pc # "threw"
       /\ pc \in {"parsed", "evaluated"}
          => program = << AssignmentStatement("x", ArithmeticTree(ExpressionOf(tokens))) >>
       /\ (pc = "evaluated"
           /\ IsAssignmentOf(<< Token("VALUE", Num(2)), Token("PLUS", Null),
                                Token("VALUE", Num(3)), Token("MULTIPLY", Null),
                                Token("VALUE", Num(4)) >>))
          => vals = << Num(14) >>

\* 2 - 3 - 4 was parsed as (2 - 3) - 4 and evaluated to -5
C16_Witness ==
    /\ pc = "evaluated"
    /\ IsAssignmentOf(<< Token("VALUE", Num(2)), Token("MINUS", Null),
                         Token("VALUE", Num(3)), Token("MINUS", Null),
                         Token("VALUE", Num(4)) >>)
    /\ program = << AssignmentStatement("x",
                       Bin("MINUS", Bin("MINUS", Lit(2), Lit(3)), Lit(4))) >>
    /\ vals = << Num(-5) >>

\* 2 + 3 * 4 was evaluated to 14
C16_WitnessScenario ==
    /\ pc = "evaluated"
    /\ IsAssignmentOf(<< Token("VALUE", Num(2)), Token("PLUS", Null),
                         Token("VALUE", Num(3)), Token("MULTIPLY", Null),
                         Token("VALUE", Num(4)) >>)
    /\ vals = << Num(14) >>

RECURSIVE AlwaysReturns(_)
\* every path through the statements ends in a ReturnStatement: one of them is
\* a return, a block that always returns, or an if with an else whose two
\* branches always return (a loop may run no turn)
AlwaysReturns(stmts) ==
    \E i \in DOMAIN stmts :
        \/ stmts[i].kind = "ReturnStatement"
        \/ stmts[i].kind = "BlockStatement" /\ AlwaysReturns(stmts[i].body)
        \/ /\ stmts[i].kind = "IfStatement"
           /\ stmts[i].alternate.kind = "BlockStatement"
           /\ AlwaysReturns(stmts[i].consequent.body)
           /\ AlwaysReturns(stmts[i].alternate.body)

\* the checker has accepted the program
Accepted == pc \in {"checked", "executing"} /\ errors = << >>

\* C17: in a program that the checker accepts, every FunctionDeclaration
\* either declares the return type void or leaves its body on every path
\* through a ReturnStatement; a non-void function with a path to the end of
\* its body without a return is rejected.
C17_NonVoidFunctionAlwaysReturns ==
    Accepted
    => \A i \in DOMAIN program :
          program[i].kind = "FunctionDeclaration"
          => \/ program[i].returnType = TVoid
             \/ AlwaysReturns(program[i].body.body)

\* C18: the number of active function-call frames is bounded by a maximum
\* frame depth, and the call that would exceed it throws the runtime error
\* "stack overflow" and pushes no frame: unbounded recursion ends in that
\* error (and not in the exhaustion of the host's stack).
C18_ExplicitStackOverflow ==
    [][(At("call") /\ callDepth(ctl) >= HostStackFrames)
       => /\ thrown' = Err("stack overflow", "")
          /\ envs' = envs]_vars

\* every list but the list r is, after the step, as it was
OtherListsKept(r) ==
    /\ DOMAIN heap \subseteq DOMAIN heap'
    /\ \A o \in DOMAIN heap : o # r => heap'[o] = heap[o]

\* C19: `t << v` on a list t of length n leaves the first n elements of t as
\* they were and appends v as the one new element when v is not a list, or
\* the elements of v (as they were before the push) in order when v is a
\* list; no other list changes.  When t is not a list a runtime error is
\* thrown and no list changes.
C19_ListPush ==
    [][At("push")
       => LET t == vals[2]
              v == vals[1]
          IN IF t.t = "list"
             THEN /\ thrown' = NoError
                  /\ SubSeq(heap'[t.n], 1, Len(heap[t.n])) = heap[t.n]
                  /\ v.t # "list" => heap'[t.n] = Append(heap[t.n], v)
                  /\ v.t = "list"
                     => /\ Len(heap'[t.n]) = Len(heap[t.n]) + Len(heap[v.n])
                        /\ \A i \in DOMAIN heap[v.n] :
                              heap'[t.n][Len(heap[t.n]) + i] = heap[v.n][i]
                  /\ OtherListsKept(t.n)
             ELSE /\ thrown' = Err("Cannot push to non-list type", t.t)
                  /\ heap' = heap]_vars

\* `let a : list = [1]  a << 2  a << [3, 4]  a << a` has run
C19_Witness ==
    \E r \in DOMAIN heap :
        heap[r] = << Num(1), Num(2), Num(3), Num(4), Num(1), Num(2), Num(3), Num(4) >>

\* a push to a variable that holds a number has thrown
C19_WitnessNonList ==
    pc = "threw" /\ thrown = Err("Cannot push to non-list type", "number")

\* the bindings (of every Environment, popped or not) that hold the list r
BindingsOf(r) ==
    UNION {{<<e, name>> : name \in {n \in DOMAIN envs[e].variables :
                                       envs[e].variables[n].value = ListRef(r)}} :
           e \in DOMAIN envs}

\* C20: list values are shared by reference.  A list literal builds a list
\* that is none of the lists built before and changes none of them; only a
\* list literal and a push change the lists, so that binding a list to a
\* variable, passing it and returning it copy nothing and no list is lost
\* when a scope is popped; a value that is defined, passed or returned is the
\* list it was; and after a push every binding of the target list, in every
\* Environment, holds the list with the pushed elements.
C20_ListsSharedByReference ==
    [][/\ At("list")
          => /\ Head(vals').t = "list"
             /\ Head(vals').n \notin DOMAIN heap
             /\ OtherListsKept(Head(vals').n)
       /\ heap' # heap => At("list") \/ (At("push") /\ vals[2].t = "list")
       /\ (At("define") /\ Head(vals).t = "list" /\ thrown' = NoError)
          => envs'[currentEnv].variables[Top.decl.name].value = Head(vals)
       /\ (At("callReturn") /\ returnValue.t = "list")
          => Head(vals') = returnValue
       /\ (At("push") /\ vals[2].t = "list")
          => \A b \in BindingsOf(vals[2].n) :
                /\ envs'[b[1]].variables[b[2]] = envs[b[1]].variables[b[2]]
                /\ heap'[envs'[b[1]].variables[b[2]].value.n]
                   = IF vals[1].t = "list" THEN heap[vals[2].n] \o heap[vals[1].n]
                     ELSE Append(heap[vals[2].n], vals[1])
      ]_vars

\* the list that f built and returned was pushed to through q after f's scope
\* was popped, and p, bound to the same list, shows the element; the literal
\* [2] evaluated later is another list
C20_Witness ==
    /\ pc = "exited" /\ exitCode = 0
    /\ output = << "[2, 7]", "[2]" >>
    /\ \E e \in DOMAIN envs :
          /\ Has(envs[e].variables, "p") /\ Has(envs[e].variables, "q")
          /\ envs[e].variables["p"].value = envs[e].variables["q"].value
          /\ envs[e].variables["p"].value.t = "list"

\* the list a passed to f(l) { return l } and pushed to through the result c
\* shows the element through a
C20_WitnessArgument ==
    /\ pc = "exited" /\ exitCode = 0
    /\ output = << "[2, 7]" >>
    /\ \E e \in DOMAIN envs :
          /\ Has(envs[e].variables, "a") /\ Has(envs[e].variables, "c")
          /\ envs[e].variables["a"].value = envs[e].variables["c"].value

\* the value of the loop variable in turn i of the loop of the frame
LoopValue(frame) ==
    IF frame.stmt.isIndex THEN Num(frame.i) ELSE heap[frame.ref][frame.i + 1]

C22_IndexAccess ==
    [][At("index") =>
         LET obj == vals[2]
             index == vals[1]
         IN IF obj.t = "list" /\ index.t = "number" /\ index.d = 1
            THEN /\ thrown' = NoError
                 /\ Head(vals') = (IF index.n >= 0 /\ index.n < Len(heap[obj.n])
                                   THEN heap[obj.n][index.n + 1]
                                   ELSE Null)
            ELSE thrown' = Err("Cannot index non-list or invalid index", "")
      ]_vars

\* the same without the clause on non-integer numbers: element, null out of
\* range (also for an index that is a number but no integer), error otherwise
IndexAccessOfTheCode ==
    [][At("index") =>
         LET obj == vals[2]
             index == vals[1]
         IN IF obj.t = "list" /\ index.t = "number"
            THEN /\ thrown' = NoError
                 /\ Head(vals') = (IF /\ index.d = 1
                                      /\ index.n >= 0 /\ index.n < Len(heap[obj.n])
                                   THEN heap[obj.n][index.n + 1]
                                   ELSE Null)
            ELSE thrown' = Err("Cannot index non-list or invalid index", "")
      ]_vars

(***************************************************************************)
(* A TypeChecker object that is given several ASTs in turn: check(A), then  *)
(* check(B) on the same object, then check(A) on the same or on a new one,  *)
(* then the AST of A as it is before the parser fills in the annotations.  *)
(***************************************************************************)
\* the field initialisers of class TypeChecker
NewTypeChecker ==
    [symbolTable |-> EmptyMap, functionTable |-> EmptyMap,
     currentFunctionReturnType |-> NoType, errors |-> << >>, scopes |-> << >>]

\* the program checked in between: its globals, its f and its errors differ
\* from those of the programs of the pool
EarlierPrograms == {
    \* let x := "s"  let xs := "t"  let a := 1  let b := 2  let r := "s"
    \* let ys := 0  let y := 0  let z := 0
    \* fn f(a: int): list { return a }
    \* fn main(): void { const k := 1  k = 2  let c := w }
    << Let("x", Literal(Str("s"))), Let("xs", Literal(Str("t"))),
       Let("a", Lit(1)), Let("b", Lit(2)), Let("r", Literal(Str("s"))),
       Let("ys", Lit(0)), Let("y", Lit(0)), Let("z", Lit(0)),
       FunctionDeclaration("f", IntParam, TList(TVoid), << ReturnStatement(V("a")) >>),
       FunctionDeclaration("main", << >>, TVoid,
          << Const("k", Lit(1)), AssignmentStatement("k", Lit(2)),
             Let("c", V("w")) >>) >>
  }

CheckerInit ==
    /\ pc = "parsed"
    /\ \E N \in 0..MaxN :
       \E g \in DOMAIN GlobalVariants(N), f \in DOMAIN FunctionVariants(N),
          m \in {0} \cup DOMAIN MainVariants(N) :
          /\ program = inferTypesInProgram(Program(g, f, m, N))
          /\ \E earlier \in EarlierPrograms :
                calls = << inferTypesInProgram(earlier), program,
                           Program(g, f, m, N) >>
    /\ symbolTable = EmptyMap
    /\ functionTable = EmptyMap
    /\ currentFunctionReturnType = NoType
    /\ errors = << >>
    /\ scopes = << >>
    /\ cstack = << >>
    /\ envs = (globalEnv :> Environment(NoEnv))
    /\ currentEnv = globalEnv
    /\ functions = EmptyMap
    /\ returnValue = Undefined
    /\ shouldReturn = FALSE
    /\ heap = << >>
    /\ ctl = << >>
    /\ vals = << >>
    /\ output = << >>
    /\ thrown = NoError
    /\ exitCode = -1
    /\ declared = EmptyMap
    /\ tokens = << >>
    /\ pos = 0
    /\ returned = << >>
    /\ arguments = << >>
    /\ result = << >>

\* the caller passes the next AST to check() of the same TypeChecker
CallCheckAgain ==
    /\ pc = "checked"
    /\ calls # << >>
    /\ pc' = "parsed"
    /\ program' = Head(calls)
    /\ calls' = Tail(calls)
    /\ UNCHANGED <<parserVars, returned, applyVars, checkerVars, interpreterVars, exitCode,
                   declared>>

\* the caller passes the next AST to check() of a new TypeChecker
CallCheckOfNewTypeChecker ==
    /\ pc = "checked"
    /\ calls # << >>
    /\ pc' = "parsed"
    /\ program' = Head(calls)
    /\ calls' = Tail(calls)
    /\ SetTC(NewTypeChecker)
    /\ UNCHANGED <<parserVars, returned, applyVars, cstack, interpreterVars, exitCode, declared>>

CheckerNext ==
    \/ check
    \/ CheckerStep
    \/ checkReturn
    \/ CallCheckAgain
    \/ CallCheckOfNewTypeChecker

CheckerSpec == CheckerInit /\ [][CheckerNext]_vars

\* C23: check() is repeatable: two calls with the same AST return the same
\* error messages in the same order, on the same or on a new TypeChecker and
\* whatever program was checked in between; a call starts from the fields of
\* a new TypeChecker with the functions of its own program registered, so no
\* symbol, function or scope of an earlier call is left.
C23_CheckIsRepeatable ==
    /\ [](\A i \in DOMAIN returned : \A j \in DOMAIN returned :
             returned[i].program = returned[j].program
             => returned[i].errors = returned[j].errors)
    /\ [][(pc = "parsed" /\ pc' = "checking")
          => TC' = registerFunctions(NewTypeChecker, program, 1)]_vars

\* a program with errors was checked, another one with other errors after
\* it on the same object, and the first one again
C23_Witness ==
    /\ Len(returned) = 3
    /\ returned[1].program = returned[3].program
    /\ returned[1].errors # << >>
    /\ returned[2].errors # << >>
    /\ returned[2].errors # returned[1].errors
    /\ symbolTable # EmptyMap

\* the VariableDeclarations of a statement sequence
DeclarationsOf(statements) ==
    { k \in DOMAIN statements : statements[k].kind = "VariableDeclaration" }

C25_ParserInferenceIsAdvisory ==
    \A i \in DOMAIN returned : \A j \in DOMAIN returned :
        returned[i].program = inferTypesInProgram(returned[j].program)
        => returned[i].errors = returned[j].errors

\* the frames of the calls that have not returned, outermost first
CallReturnFrames(frames) ==
    SelectSeq(Reverse(frames), LAMBDA fr : fr.k = "callReturn")

\* C26: a user function call leaves the return state of its caller
\* untouched: the call saves shouldReturn and returnValue as they are when
\* the body is entered, what is saved does not change while the call runs,
\* and when the call returns both fields hold the saved values again; the
\* caller was running, so shouldReturn is false after the call and the
\* statements that follow it are executed.
C26_CallRestoresReturnState ==
    [][/\ (At("call") /\ thrown' = NoError)
          => /\ Len(ctl') >= 2 /\ ctl'[2].k = "callReturn"
             /\ ctl'[2].prevShouldReturn = shouldReturn
             /\ ctl'[2].prevReturnValue = returnValue
       /\ (Executing /\ thrown' = NoError /\ ~At("callReturn"))
          => LET before == CallReturnFrames(ctl)
                 after == CallReturnFrames(ctl')
             IN /\ Len(after) >= Len(before)
                /\ SubSeq(after, 1, Len(before)) = before
       /\ At("callReturn")
          => /\ shouldReturn' = Top.prevShouldReturn
             /\ returnValue' = Top.prevReturnValue
             /\ ~shouldReturn'
             /\ CallReturnFrames(ctl') = CallReturnFrames(Rest)
      ]_vars

\* f has executed `return a + 1` and main(), its caller, goes on with the
\* value: the return state is the one main() had before the call
C26_Witness ==
    /\ At("define")
    /\ Top.decl.name = "r"
    /\ functions["f"].body = FunctionVariants(0)[1].body
    /\ Head(vals) = Num(1)
    /\ ~shouldReturn
    /\ returnValue = Undefined

\* C27: a call whose body finishes without a ReturnStatement executed by
\* that invocation, or with a return without argument, yields null: when
\* the body ends without return, returnValue holds no value of an earlier
\* or nested call, and a return without argument leaves it undefined.
C27_CallWithoutReturnValueYieldsNull ==
    /\ []((At("callReturn") /\ ~shouldReturn) => returnValue = Undefined)
    /\ [][/\ (At("callReturn") /\ (~shouldReturn \/ returnValue = Undefined))
             => Head(vals') = Null
          /\ (AtStmt("ReturnStatement") /\ Top.stmt.argument = NoExpr)
             => (returnValue' = Undefined /\ shouldReturn')
         ]_vars

\* f(1) ends without a return after the call f(0) nested in its body has
\* returned 5 (printed as t)
C27_Witness ==
    /\ At("callReturn")
    /\ callDepth(ctl) = 2
    /\ ~shouldReturn
    /\ output = << "5" >>

\* f has executed a return without argument
C27_WitnessEmptyReturn ==
    /\ At("callReturn")
    /\ callDepth(ctl) = 1
    /\ shouldReturn /\ returnValue = Undefined

(***************************************************************************)
(* The scope methods of a TypeChecker applied on their own: defineSymbol,  *)
(* pushScope and popScope in any order, as the statements of a program     *)
(* make the checker call them.                                             *)
(***************************************************************************)
\* the deepest nesting of scopes, and the most errors, that are tried
MaxScopes == 2
MaxErrors == 1

SymbolNames == {"x", "y"}
\* x is declared with either type, y always as an int
SymbolTypes(name) == IF name = "x" THEN {TInt(32), TString} ELSE {TInt(32)}

ScopeInit ==
    /\ pc = "checking"
    /\ program = << >>
    /\ symbolTable = EmptyMap
    /\ functionTable = EmptyMap
    /\ currentFunctionReturnType = NoType
    /\ errors = << >>
    /\ scopes = << >>
    /\ cstack = << >>
    /\ envs = (globalEnv :> Environment(NoEnv))
    /\ currentEnv = globalEnv
    /\ functions = EmptyMap
    /\ returnValue = Undefined
    /\ shouldReturn = FALSE
    /\ heap = << >>
    /\ ctl = << >>
    /\ vals = << >>
    /\ output = << >>
    /\ thrown = NoError
    /\ exitCode = -1
    /\ declared = EmptyMap
    /\ tokens = << >>
    /\ pos = 0
    /\ calls = << >>
    /\ returned = << >>
    /\ arguments = << >>
    /\ result = << >>

ScopeFrame ==
    UNCHANGED <<pc, program, cstack, interpreterVars, exitCode, declared, parserVars,
                callVars, result>>

\* this.defineSymbol(name, type, mutable)
DefineSymbol ==
    /\ \E name \in SymbolNames, mutable \in BOOLEAN : \E type \in SymbolTypes(name) :
          /\ Len(defineSymbol(TC, name, type, mutable).errors) <= MaxErrors
          /\ arguments' = << name, type, mutable >>
          /\ SetTC(defineSymbol(TC, name, type, mutable))
    /\ ScopeFrame

\* this.pushScope()
PushScope ==
    /\ Len(scopes) < MaxScopes
    /\ arguments' = << >>
    /\ SetTC(pushScope(TC))
    /\ ScopeFrame

\* this.popScope()
PopScopeCall ==
    /\ Len(scopes) > 0
    /\ arguments' = << >>
    /\ SetTC(popScope(TC))
    /\ ScopeFrame

ScopeNext ==
    \/ DefineSymbol
    \/ PushScope
    \/ PopScopeCall

ScopeSpec == ScopeInit /\ [][ScopeNext]_vars

\* the scopes outside the current one that bind the name, innermost last
OuterScopesWith(name) ==
    { i \in 1..(Len(scopes) - 1) : name \in DOMAIN scopes[i] }

\* the binding that a name has outside the current scope: the one of the
\* innermost outer scope that has the name, else the one of the global table
NearestOuterBinding(name) ==
    IF OuterScopesWith(name) # {}
    THEN scopes[CHOOSE i \in OuterScopesWith(name) :
                   \A j \in OuterScopesWith(name) : j <= i][name]
    ELSE IF name \in DOMAIN symbolTable THEN symbolTable[name]
    ELSE NoSymbol

\* C28: defineSymbol in a block scope records one error and leaves the
\* scopes and the global table unchanged when the name is defined in the
\* current scope or its nearest outer binding is immutable; otherwise it
\* records no error and adds the symbol to the current scope only, where it
\* is what the name resolves to; popScope removes the current scope only, so
\* that the names resolve to their outer bindings again.
C28_DefineSymbolInBlockScope ==
    [][/\ (Len(scopes) > 0 /\ arguments' # << >>)
          => LET name == arguments'[1]
                 type == arguments'[2]
                 mutable == arguments'[3]
                 top == Len(scopes)
                 outer == NearestOuterBinding(name)
             IN IF \/ name \in DOMAIN scopes[top]
                   \/ (outer # NoSymbol /\ ~outer.mutable)
                THEN /\ Len(errors') = Len(errors) + 1
                     /\ SubSeq(errors', 1, Len(errors)) = errors
                     /\ errors'[Len(errors')].arg = name
                     /\ scopes' = scopes
                     /\ symbolTable' = symbolTable
                ELSE /\ errors' = errors
                     /\ symbolTable' = symbolTable
                     /\ Len(scopes') = Len(scopes)
                     /\ \A i \in 1..(top - 1) : scopes'[i] = scopes[i]
                     /\ DOMAIN scopes'[top] = DOMAIN scopes[top] \cup {name}
                     /\ \A n \in DOMAIN scopes[top] : scopes'[top][n] = scopes[top][n]
                     /\ scopes'[top][name] = Symbol(name, type, mutable)
                     /\ resolveSymbol(TC', name) = Symbol(name, type, mutable)
       /\ (Len(scopes') < Len(scopes))
          => /\ scopes' = SubSeq(scopes, 1, Len(scopes) - 1)
             /\ symbolTable' = symbolTable
             /\ errors' = errors
             /\ \A n \in SymbolNames :
                   resolveSymbol(TC', n) = NearestOuterBinding(n)
      ]_vars

\* x is bound in the global table and, with other types, in both nested
\* scopes; the declaration of y was refused in the inner scope for the
\* immutable binding that y has in the scope around it, not the global one
C28_Witness ==
    /\ Len(scopes) = 2
    /\ "x" \in DOMAIN symbolTable /\ symbolTable["x"].type = TInt(32)
    /\ "x" \in DOMAIN scopes[1] /\ scopes[1]["x"].type = TString
    /\ "x" \in DOMAIN scopes[2] /\ scopes[2]["x"].type = TInt(32)
    /\ "y" \in DOMAIN symbolTable /\ symbolTable["y"].mutable
    /\ "y" \in DOMAIN scopes[1] /\ ~scopes[1]["y"].mutable
    /\ "y" \notin DOMAIN scopes[2]
    /\ arguments = << "y", TInt(32), TRUE >>
    /\ errors = << Err("Cannot redeclare const variable from outer scope", "y") >>

\* a declaration was refused because the current scope has the name
C28_WitnessCurrentScope ==
    /\ Len(scopes) = 1
    /\ "x" \in DOMAIN scopes[1]
    /\ arguments = << "x", TString, TRUE >>
    /\ errors = << Err("Variable already defined in current scope", "x") >>

(***************************************************************************)
(* The type methods of the TypeChecker applied on their own to every pair  *)
(* of type annotations up to a nesting depth of lists.                     *)
(***************************************************************************)
\* the deepest nesting of list types that is tried
MaxListDepth == 2

ScalarTypes ==
    { TInt(8), TInt(16), TInt(32), TInt(64), TFloat(32), TFloat(64),
      TBool, TString, TVoid }

RECURSIVE TypeAnnotations(_)
\* the annotations with at most d nested list types
TypeAnnotations(d) ==
    IF d = 0 THEN ScalarTypes
    ELSE ScalarTypes \cup { TList(e) : e \in TypeAnnotations(d - 1) }

TypesInit ==
    /\ pc = "checking"
    /\ \E a \in TypeAnnotations(MaxListDepth), b \in TypeAnnotations(MaxListDepth) :
          arguments = << a, b >>
    /\ result = << >>
    /\ program = << >>
    /\ symbolTable = EmptyMap
    /\ functionTable = EmptyMap
    /\ currentFunctionReturnType = NoType
    /\ errors = << >>
    /\ scopes = << >>
    /\ cstack = << >>
    /\ envs = (globalEnv :> Environment(NoEnv))
    /\ currentEnv = globalEnv
    /\ functions = EmptyMap
    /\ returnValue = Undefined
    /\ shouldReturn = FALSE
    /\ heap = << >>
    /\ ctl = << >>
    /\ vals = << >>
    /\ output = << >>
    /\ thrown = NoError
    /\ exitCode = -1
    /\ declared = EmptyMap
    /\ tokens = << >>
    /\ pos = 0
    /\ calls = << >>
    /\ returned = << >>

TypesFrame ==
    UNCHANGED <<pc, program, checkerVars, interpreterVars, exitCode, declared,
                parserVars, callVars, arguments>>

\* this.typesMatch(a, b)
TypesMatch ==
    /\ result = << >>
    /\ result' = << [method |-> "typesMatch",
                     value |-> typesMatch(arguments[1], arguments[2])] >>
    /\ TypesFrame

\* this.checkBinaryExpression(l op r), l and r being variables of the two
\* types: the type returned and the errors recorded
CheckBinaryExpression ==
    /\ result = << >>
    /\ \E op \in ArithmeticOps :
          result' =
             << [method |-> "checkBinaryExpression", operator |-> op,
                 value |-> checkBinaryExpression(
                              [NewTypeChecker EXCEPT !.symbolTable =
                                  ("l" :> Symbol("l", arguments[1], TRUE))
                                  @@ ("r" :> Symbol("r", arguments[2], TRUE))],
                              Bin(op, V("l"), V("r")))] >>
    /\ TypesFrame

\* this.widerType(a, b)
WiderType ==
    /\ result = << >>
    /\ result' = << [method |-> "widerType",
                     value |-> widerType(arguments[1], arguments[2])] >>
    /\ TypesFrame

TypesNext ==
    \/ TypesMatch
    \/ CheckBinaryExpression
    \/ WiderType

TypesSpec == TypesInit /\ [][TypesNext]_vars

RECURSIVE Matching(_, _)
\* same kind; for int and float the same bit width; for list an element
\* type that is void on either side, or matching element types
Matching(a, b) ==
    /\ a.kind = b.kind
    /\ a.kind \in {"int", "float"} => a.bits = b.bits
    /\ a.kind = "list" =>
          \/ a.elementType.kind = "void"
          \/ b.elementType.kind = "void"
          \/ Matching(a.elementType, b.elementType)

Applied(method) == result # << >> /\ result[1].method = method

\* C29: typesMatch(a, b) is true exactly when a and b have the same kind
\* and, for int and float, the same bit width and, for list, either element
\* type is void or the element types match; it is false for every pair of
\* different kinds.
C29_TypesMatch ==
    Applied("typesMatch") =>
       /\ result[1].value = Matching(arguments[1], arguments[2])
       /\ arguments[1].kind # arguments[2].kind => result[1].value = FALSE

\* list<list<i32>> matches list<list<void>>: the void element type is found
\* one level down
C29_Witness ==
    /\ Applied("typesMatch")
    /\ arguments = << TList(TList(TInt(32))), TList(TList(TVoid)) >>
    /\ result[1].value = TRUE

\* list<i8> does not match list<i32>
C29_WitnessMismatch ==
    /\ Applied("typesMatch")
    /\ arguments = << TList(TInt(8)), TList(TInt(32)) >>
    /\ result[1].value = FALSE

\* float beats int, and within a kind the wider bit width wins
WiderOf(l, r) ==
    IF l.kind = "float" /\ r.kind = "float"
    THEN TFloat(IF l.bits >= r.bits THEN l.bits ELSE r.bits)
    ELSE IF l.kind = "float" THEN l
    ELSE IF r.kind = "float" THEN r
    ELSE TInt(IF l.bits >= r.bits THEN l.bits ELSE r.bits)

\* C30: for an arithmetic BinaryExpression with numeric operand types l and
\* r the checker records no error and the type is the wider of l and r,
\* except for `/` on two ints, where it is l whatever the width of r; when
\* an operand is not numeric one error is recorded.
C30_ArithmeticResultType ==
    Applied("checkBinaryExpression") =>
       LET l == arguments[1]
           r == arguments[2]
           checked == result[1].value
       IN IF isNumeric(l) /\ isNumeric(r)
          THEN /\ checked.errors = << >>
               /\ checked.type =
                     (IF result[1].operator = "DIVIDE" /\ l.kind = "int" /\ r.kind = "int"
                      THEN l
                      ELSE WiderOf(l, r))
          ELSE /\ Len(checked.errors) = 1
               /\ checked.errors[1].text = "Cannot perform " \o result[1].operator \o " on"

\* i8 / i64 is typed i8
C30_Witness ==
    /\ Applied("checkBinaryExpression")
    /\ result[1].operator = "DIVIDE"
    /\ arguments = << TInt(8), TInt(64) >>
    /\ result[1].value = Typed(TInt(8), << >>)

\* i8 * f64 is typed f64, and string + i32 records an error
C30_WitnessWider ==
    /\ Applied("checkBinaryExpression")
    /\ result[1].operator = "MULTIPLY"
    /\ arguments = << TInt(8), TFloat(64) >>
    /\ result[1].value = Typed(TFloat(64), << >>)

Last(sq) == sq[Len(sq)]

IsPrefix(s1, s2) == Len(s1) <= Len(s2) /\ SubSeq(s2, 1, Len(s1)) = s1
IsSuffix(s1, s2) ==
    Len(s1) <= Len(s2) /\ SubSeq(s2, Len(s2) - Len(s1) + 1, Len(s2)) = s1

\* C31: check() never aborts: while it runs nothing is thrown and a step of
\* the walk is always possible, until it returns the error list; whatever a
\* statement records, the statements after it in its sequence and in the
\* enclosing sequences stay to be checked; and errors are only ever added
\* at the end of the list, in the order of the walk.
C31_CheckerNeverAborts ==
    /\ [](pc = "checking" =>
            /\ thrown = NoError
            /\ ENABLED (CheckerStep \/ checkReturn))
    /\ [][pc = "checking" =>
            /\ pc' \in {"checking", "checked"}
            /\ IsPrefix(errors, errors')
            /\ AtStatement => IsSuffix(CRest, cstack')
            /\ (Checking /\ ~AtStatement) => IsSuffix(Tail(cstack), cstack')
            /\ pc' = "checked" => (cstack = << >> /\ Last(returned').errors = errors)
         ]_vars

\* fn f(a: int): int { let y := x  return y + a } without a global x, and
\* fn main(): void { const k := 1  k = 2 }: the errors of three statements
\* of two functions, in the order of the text
C31_Witness ==
    /\ pc = "checked"
    /\ Len(errors) = 4
    /\ errors[1] = Err("Undefined variable", "x")
    /\ errors[2].text = "Cannot perform PLUS on"
    /\ errors[3].text = "Return type mismatch: expected"
    /\ errors[4].text = "Cannot assign to immutable variable"

\* the function declaration whose body the checker is in: the statement that
\* made the innermost call of checkFunctionDeclaration still on the stack
EndFunctionFrames == {k \in 1..Len(cstack) : cstack[k].op = "endFunction"}
InsideFunction == EndFunctionFrames # {}
EnclosingFunction ==
    LET k == CHOOSE j \in EndFunctionFrames : \A l \in EndFunctionFrames : j <= l
    IN cstack[k + 1].statements[cstack[k + 1].i - 1]
DeclaredReturnType ==
    IF ~InsideFunction THEN NoType
    ELSE IF EnclosingFunction.returnType = NoType THEN TVoid
    ELSE EnclosingFunction.returnType

\* the errors a step of the checker adds
NewErrors == SubSeq(errors', Len(errors) + 1, Len(errors'))

\* C32: every ReturnStatement the checker comes to is checked against the
\* innermost function declaration around it: outside of any function body it
\* gets the error "Return statement outside of function"; without argument
\* it gets "Function expects return value" exactly when the declared return
\* type is not void; with an argument it gets "Return type mismatch" exactly
\* when typesMatch fails on the declared return type and the argument's type.
\* While a body is checked the current return type is the declared type of
\* the function around it, and after the declaration it is the one of before.
C32_ReturnStatementsAreChecked ==
    /\ [](Checking => currentFunctionReturnType = DeclaredReturnType)
    /\ [](pc = "checked" => currentFunctionReturnType = NoType)
    /\ [][(AtStatement /\ CStmt.kind = "ReturnStatement") =>
            IF ~InsideFunction
            THEN NewErrors = << Err("Return statement outside of function", "") >>
            ELSE IF CStmt.argument = NoExpr
            THEN NewErrors =
                   IF DeclaredReturnType.kind # "void"
                   THEN << Err("Function expects return value, but got empty return",
                               typeToString(DeclaredReturnType)) >>
                   ELSE << >>
            ELSE LET arg == checkExpression(TC, CStmt.argument)
                 IN NewErrors =
                      arg.errors \o
                      IF typesMatch(DeclaredReturnType, arg.type) THEN << >>
                      ELSE << Err("Return type mismatch: expected",
                                  typeToString(DeclaredReturnType) \o ", got "
                                  \o typeToString(arg.type)) >>
         ]_vars

\* the first of ExtraPrograms: the return of inner() is checked against string,
\* the one of outer() after it against int, and the one at top level
C32_Witness ==
    /\ pc = "checked"
    /\ program = ExtraPrograms[1]
    /\ errors = << Err("Return type mismatch: expected", "string, got i32"),
                   Err("Return type mismatch: expected", "i32, got string"),
                   Err("Function expects return value, but got empty return", "i32"),
                   Err("Return statement outside of function", ""),
                   Err("Return type mismatch: expected", "void, got i32") >>

\* the ReturnStatements of a statement sequence that are in no function body
RECURSIVE ReturnsOutsideFunctions(_)
ReturnsOutsideFunctions(statements) ==
    IF statements = << >> THEN 0
    ELSE LET stmt == Head(statements)
         IN (CASE stmt.kind = "ReturnStatement" -> 1
               [] stmt.kind = "BlockStatement" -> ReturnsOutsideFunctions(stmt.body)
               [] stmt.kind = "IfStatement" ->
                    ReturnsOutsideFunctions(stmt.consequent.body)
                    + ReturnsOutsideFunctions(stmt.alternate.body)
               [] stmt.kind \in {"WhileStatement", "ForStatement"} ->
                    ReturnsOutsideFunctions(stmt.body.body)
               [] OTHER -> 0)
            + ReturnsOutsideFunctions(Tail(statements))

\* C32 as the specification has it: when check() returns, every
\* ReturnStatement of the program that is in no function body has its error
C32_EveryReturnOutsideFunctionsHasAnError ==
    pc = "checked" =>
        Cardinality({k \in DOMAIN errors :
                        errors[k].text = "Return statement outside of function"})
          = ReturnsOutsideFunctions(program)

\* the environment in which the statement that is being executed began
StatementEnds == {k \in 1..Len(ctl) : ctl[k].k = "stmtEnd"}
StatementEnv ==
    ctl[CHOOSE j \in StatementEnds : \A l \in StatementEnds : j <= l].env

\* the call at hand is one of a registered user function
AtUserCall ==
    /\ AtExpr("FunctionCallExpression")
    /\ Top.expr.callee.kind = "Variable"
    /\ ~isBuiltIn(Top.expr.callee.name)
    /\ Has(functions, Top.expr.callee.name)

\* C33: what the evaluator does next at a binary expression is its left
\* operand, then its right operand, then the operator, each once; at a call of
\* a user function with as many arguments as parameters it is the arguments
\* from the first to the last, each once, then the call, and only the call
\* creates the callee's environment and binds the parameters to the values in
\* that order; with another number of arguments the error is thrown at once,
\* nothing printed and no environment made.  Every expression, so every
\* argument, is evaluated in the environment of the statement it belongs to,
\* also after a call in an earlier operand or argument has returned.
C33_SubExpressionsLeftToRight ==
    /\ []((Executing /\ Top.k \in {"expr", "binary", "call"} /\ StatementEnds # {})
            => currentEnv = StatementEnv)
    /\ [][AtExpr("BinaryExpression") =>
            /\ ctl' = << ExprFrame(Top.expr.left), ExprFrame(Top.expr.right),
                         BinaryFrame(Top.expr.operator) >> \o Rest
            /\ vals' = vals /\ currentEnv' = currentEnv /\ envs' = envs
         ]_vars
    /\ [][AtUserCall =>
            LET args == Top.expr.arguments
                n == Len(args)
            IN IF n # Len(functions[Top.expr.callee.name].params)
               THEN /\ pc' = "threw"
                    /\ thrown' = Err("Function expects arguments", Top.expr.callee.name)
                    /\ output' = output /\ envs' = envs /\ heap' = heap
               ELSE /\ Len(ctl') = Len(ctl) + n
                    /\ \A i \in 1..n : ctl'[i] = ExprFrame(args[i])
                    /\ ctl'[n + 1] = CallFrame(Top.expr.callee.name, n)
                    /\ vals' = vals /\ currentEnv' = currentEnv /\ envs' = envs
         ]_vars
    /\ [][(At("call") /\ pc' = "executing") =>
            LET params == functions[Top.name].params
            IN /\ currentEnv' \notin DOMAIN envs
               /\ envs'[currentEnv'].parent = currentEnv
               /\ \A i \in 1..Top.n :
                     envs'[currentEnv'].variables[params[i].name].value
                       = vals[Top.n + 1 - i]
         ]_vars

\* the third of ExtraPrograms has run: f(1), then f(2), then the variable a of
\* main, and g was given -1 and 7
C33_Witness ==
    /\ pc = "exited" /\ exitCode = 0
    /\ program = inferTypesInProgram(ExtraPrograms[3])
    /\ output = << "1", "2", "-8" >>

\* the fourth of ExtraPrograms: the checker takes stringify for its built-in
\* of one argument, the evaluator calls the declared function of two
\* parameters, and f(1) has not printed
C33_WitnessArgumentCount ==
    /\ pc = "threw"
    /\ program = ExtraPrograms[4]
    /\ thrown = Err("Function expects arguments", "stringify")
    /\ output = << >>

\* the top-level declarations of the function name, and the last of them
DeclarationsOfFunction(name) ==
    {i \in DOMAIN program : /\ program[i].kind = "FunctionDeclaration"
                            /\ program[i].name = name}
DeclaredFunctions ==
    {program[i].name : i \in {j \in DOMAIN program :
                                 program[j].kind = "FunctionDeclaration"}}
LaterDeclaration(name) ==
    program[CHOOSE i \in DeclarationsOfFunction(name) :
               \A j \in DeclarationsOfFunction(name) : j <= i]
DeclaredTwice == {name \in DeclaredFunctions :
                     Cardinality(DeclarationsOfFunction(name)) >= 2}

\* C34: registering the functions records no error, whatever their names;
\* from then on the checker's function table holds, for every declared name,
\* the parameters and the return type of the textually last declaration with
\* that name, and once execute() has registered the functions the evaluator's
\* map holds its parameters and its body; a call enters the body of the last
\* declaration of the name it calls.
C34_LaterDeclarationReplacesEarlier ==
    /\ [][pc = "parsed" => errors' = << >>]_vars
    /\ [](pc \notin {"start", "parsed"} =>
            \A name \in DeclaredFunctions :
               LET decl == LaterDeclaration(name)
               IN /\ Has(functionTable, name)
                  /\ functionTable[name].params = decl.params
                  /\ functionTable[name].returnType =
                        IF decl.returnType = NoType THEN TVoid ELSE decl.returnType)
    /\ [](pc \in {"executing", "threw"} =>
            \A name \in DeclaredFunctions :
               LET decl == LaterDeclaration(name)
               IN /\ Has(functions, name)
                  /\ functions[name].body = decl.body
                  /\ Len(functions[name].params) = Len(decl.params)
                  /\ \A i \in DOMAIN decl.params :
                        functions[name].params[i].name = decl.params[i].name)
    /\ [][(At("call") /\ pc' = "executing") =>
            /\ Head(ctl') = ExecBlockFrame(LaterDeclaration(Top.name).body)
            /\ Top.n = Len(LaterDeclaration(Top.name).params)
         ]_vars

\* the fifth of ExtraPrograms: main calls f(1, 2) between the declaration of
\* f with one parameter and the one with two; no error, and 1 * 2 is printed
C34_Witness ==
    /\ pc = "exited" /\ exitCode = 0
    /\ DeclaredTwice = {"f"}
    /\ errors = << >>
    /\ output = << "2" >>

\* C35: the evaluator, which runs only the programs the checker accepts,
\* never throws "already defined in current scope": a declaration is executed
\* in an Environment that does not hold its name, and a call binds parameters
\* of different names in the new Environment of the call.
C35_NoRedefinitionAtRuntime ==
    /\ thrown.text # "Variable already defined in current scope"
    /\ At("define") => ~Has(envs[currentEnv].variables, Top.decl.name)
    /\ At("call") =>
          LET params == functions[Top.name].params
          IN \A i, j \in DOMAIN params : params[i].name = params[j].name => i = j

\* a declaration is executed while the name is bound up the chain (shadowing)
C35_Witness ==
    /\ At("define")
    /\ Lookup(envs, envs[currentEnv].parent, Top.decl.name) # NoEnv

\* the declaration of a loop body is executed again: the Environment of an
\* earlier iteration holds the name
C35_WitnessLoop ==
    /\ At("define")
    /\ Top.decl.name = "w"
    /\ \E e \in DOMAIN envs : e # currentEnv /\ Has(envs[e].variables, "w")

\* the declaration of a function body is executed in a recursive call
C35_WitnessRecursion ==
    /\ At("define")
    /\ Top.decl.name = "t"
    /\ callDepth(ctl) >= 2

(***************************************************************************)
(* The Environment methods of an Interpreter applied on their own:         *)
(* pushEnvironment and popEnvironment in any order, also more pops than    *)
(* pushes.                                                                 *)
(***************************************************************************)
\* the most Environments that are created
MaxEnvironments == 5

EnvironmentInit ==
    /\ pc = "executing"
    /\ program = << >>
    /\ symbolTable = EmptyMap
    /\ functionTable = EmptyMap
    /\ currentFunctionReturnType = NoType
    /\ errors = << >>
    /\ scopes = << >>
    /\ cstack = << >>
    /\ envs = (globalEnv :> Environment(NoEnv))
    /\ currentEnv = globalEnv
    /\ functions = EmptyMap
    /\ returnValue = Undefined
    /\ shouldReturn = FALSE
    /\ heap = << >>
    /\ ctl = << >>
    /\ vals = << >>
    /\ output = << >>
    /\ thrown = NoError
    /\ exitCode = -1
    /\ declared = EmptyMap
    /\ tokens = << >>
    /\ pos = 0
    /\ calls = << >>
    /\ returned = << >>
    /\ arguments = << >>
    /\ result = << >>

EnvironmentFrame ==
    UNCHANGED <<pc, program, checkerVars, functions, returnValue, shouldReturn, heap,
                ctl, vals, output, thrown, exitCode, declared, parserVars, callVars,
                applyVars>>

\* this.pushEnvironment()
PushEnvironment ==
    /\ Cardinality(DOMAIN envs) <= MaxEnvironments
    /\ LET p == pushEnvironment(envs, currentEnv)
       IN envs' = p.envs /\ currentEnv' = p.currentEnv
    /\ EnvironmentFrame

\* this.popEnvironment()
PopEnvironment ==
    /\ currentEnv' = popEnvironment(envs, currentEnv)
    /\ envs' = envs
    /\ EnvironmentFrame

EnvironmentNext ==
    \/ PushEnvironment
    \/ PopEnvironment

EnvironmentSpec == EnvironmentInit /\ [][EnvironmentNext]_vars

RECURSIVE ParentChain(_, _, _)
\* the nodes from env up the parent links, at most fuel of them
ParentChain(es, env, fuel) ==
    IF env = NoEnv \/ fuel = 0 THEN << >>
    ELSE << env >> \o ParentChain(es, es[env].parent, fuel - 1)

\* C36: the parent links lead from this.currentEnv to the global Environment
\* in finitely many steps and through no node twice, and the global
\* Environment has no parent; a popEnvironment() in the global Environment
\* leaves it the current one.
C36_EnvironmentChain ==
    /\ [](/\ currentEnv \in DOMAIN envs
          /\ \A e \in DOMAIN envs : envs[e].parent \in DOMAIN envs \cup {NoEnv}
          /\ envs[globalEnv].parent = NoEnv
          /\ LET chain == ParentChain(envs, currentEnv, Cardinality(DOMAIN envs) + 1)
             IN /\ Len(chain) <= Cardinality(DOMAIN envs)
                /\ \A i, j \in DOMAIN chain : chain[i] = chain[j] => i = j
                /\ chain[Len(chain)] = globalEnv)
    /\ [][(currentEnv = globalEnv /\ envs' = envs) => currentEnv' = globalEnv]_vars

\* pushes and pops have led back to the global Environment
C36_Witness ==
    /\ currentEnv = globalEnv
    /\ Cardinality(DOMAIN envs) > MaxEnvironments

\* the current Environment is three links below the global one, next to
\* Environments that were popped
C36_WitnessDeep ==
    /\ Len(ParentChain(envs, currentEnv, Cardinality(DOMAIN envs) + 1)) = 4
    /\ Cardinality(DOMAIN envs) > 4

\* C37: a for statement performs as many iterations as the iterated list had
\* elements when the loop started, whatever the body pushes: every iteration
\* that runs has an index below that length.
C37_ForIterationsOfStartLength ==
    At("forAfter") => Top.i < Top.n

\* the bodies the checker is in: the calls of popScope() still to come
PendingPopScopes == {k \in 1..Len(cstack) : cstack[k].op = "popScope"}

\* C38: while check() runs, the scope stack is as deep as the number of
\* bodies the checker is in, each with its popScope() still to come and none
\* left over, so that when the check of a statement is over and the walk is
\* back at its sequence the depth is the one of before; a statement whose
\* check is one step (a statement without body, or a for statement whose
\* iterable is not a list) leaves the depth and currentFunctionReturnType as
\* they were, with or without an error; the end of a function declaration
\* puts back the return type of before; when check() has returned the scope
\* stack is empty and no return type is current.
C38_CheckerScopesBalanced ==
    /\ [](pc = "checking" => Len(scopes) = Cardinality(PendingPopScopes))
    /\ [](pc = "checked" => (scopes = << >> /\ currentFunctionReturnType = NoType))
    /\ [][(AtStatement /\ cstack' = CRest) =>
            /\ Len(scopes') = Len(scopes)
            /\ currentFunctionReturnType' = currentFunctionReturnType
         ]_vars
    /\ [][(AtStatement /\ CStmt.kind = "FunctionDeclaration") =>
            cstack'[3] = EndFunctionFrame(currentFunctionReturnType)]_vars
    /\ [][(Checking /\ CTop.op = "endFunction") =>
            /\ currentFunctionReturnType' = CTop.prevReturnType
            /\ cstack' = Tail(cstack)
            /\ Len(scopes') = Len(scopes)
         ]_vars

\* check() has returned from a program with a for statement over a non-list
C38_Witness ==
    /\ pc = "checked"
    /\ scopes = << >>
    /\ \E k \in DOMAIN errors : errors[k].text = "For loop requires list, got"

\* the checker is four bodies deep
C38_WitnessDeep ==
    /\ pc = "checking"
    /\ Len(scopes) = 4

\* C39: for numeric types a and b, widerType(a, b) is widerType(b, a),
\* widerType(a, a) is a, the result is a float exactly when a or b is one,
\* and the result has at least the bit width of a and of b.
C39_WiderTypeLaws ==
    (Applied("widerType") /\ isNumeric(arguments[1]) /\ isNumeric(arguments[2])) =>
       LET a == arguments[1]
           b == arguments[2]
           wider == result[1].value
       IN /\ wider = widerType(b, a)
          /\ a = b => wider = a
          /\ wider.kind = "float" <=> (a.kind = "float" \/ b.kind = "float")
          /\ wider.bits >= a.bits
          /\ wider.bits >= b.bits

====
